---- MODULE Spec2Model ----
(***************************************************************************)
(* Model of shlink-ab-tests: the A/B test ledger (ABTestService), the     *)
(* variant selector (RedirectService.select_ab_variant), the URL builder  *)
(* (UrlBuilder) with the Google Forms field mapper, and the redirect      *)
(* endpoint.                                                              *)
(*                                                                         *)
(* Probabilities are floats in [0,1] in the program; here they are exact  *)
(* multiples of 1/Den, so 1.0 is Den and sums are exact.                   *)
(***************************************************************************)
EXTENDS Integers, Sequences, FiniteSets, TLC

\* ----------------------------------------------------------------------
\* Scales and bounds
\* ----------------------------------------------------------------------

\* 1.0, the maximum total probability, in weight units
Den == 10

\* the probabilities an administrator submits (0.3, 0.7)
Weights == {3, 7}

\* cap on the number of ab_tests rows ever inserted (autoincrement ids)
MaxTests == 2

\* variant destinations an administrator submits
Urls == {"u1", "u2"}

\* ids of the short_urls rows that exist, and one id that does not
ShortUrlIds == {1}
MissingShortUrlId == 2

\* the primary destinations and visitor addresses handed to select_ab_variant
PrimaryUrls == {"https://example.com/original", "https://example.com/landing",
                "https://docs.google.com/forms/d/e/RESP1/viewform",
                "https://docs.google.com/forms/about"}
IpAddresses == {"192.168.1.1", "192.168.1.2", "192.168.1.3", "192.168.1.5",
                "192.168.1.7", "192.168.1.8", "192.168.1.10"}

\* probabilities of the variants handed to select_ab_variant
SelWeights == {0, 3, 5, 7}

\* longest variant list handed to select_ab_variant
MaxSel == 2

\* cap on the count of requests served between two selections
MaxRequests == 4

\* absent optional fields of ABTestUpdate (None)
NoUrl == "none"
NoProb == -1
NoFlag == "none"

VARIABLES
    tests,      \* committed ab_tests rows: id -> row
    session,    \* ORM objects with unflushed or uncommitted changes: id -> row
    nextId,     \* next autoincrement id of ab_tests
    autoflush,  \* the Session's autoflush setting
    lastOp,     \* the last service call and its outcome
    selArgs,    \* the arguments of select_ab_variant under test
    selOut,     \* what the last select_ab_variant call returned
    selFirst,   \* what the first select_ab_variant call returned
    selCalls,   \* number of select_ab_variant calls so far (capped at 2)
    requests,   \* number of other requests the process has served
    google_forms,      \* google_forms rows: responder_form_id -> form_id
    credentials_path,  \* whether the settings provide google_credentials_path
    forms_mapper,      \* the module-global _forms_mapper: "none" or "installed"
    cache,             \* mapper.cache: <<form_id, field_name>> -> [entry_id, timestamp]
    form_cache,        \* mapper.form_cache: form_id -> [data, timestamp]
    now,               \* the clock, in minutes
    buildArgs,         \* the arguments of the last build_url call
    buildOut,          \* what the last build_url call returned, and its log
    short_urls,        \* short_urls rows: id -> row
    visits,            \* visits rows
    request,           \* the GET / request under test
    response,          \* the answer to it, with the handler's locals
    mapperOut,         \* what the last direct call of the mapper returned
    db_sum,            \* how the database adds doubles: "naive" or "exact"
    sumArgs,           \* the arguments of validate_probability_sum under test
    sumOut,            \* how the last validate_probability_sum call ended
    form_entries,      \* form_entries rows
    reconcileOut,      \* the last reconciliation: its form, field list and outcome
    now_ts,            \* AuthService._now_ts(), in half lives of a session
    issued,            \* the session tokens create_session has returned
    revoked_tokens,    \* AuthService._revoked_tokens: jti -> exp
    logged_out,        \* the jtis of the tokens passed to invalidate_session
    authOut,           \* the last call of the admin surface and its answer
    racers,            \* two administrative requests in flight: their positions
    readers            \* two get_field_entry_id calls in flight: their positions

abVars == <<tests, session, nextId, autoflush, lastOp>>

selVars == <<selArgs, selOut, selFirst, selCalls, requests>>

formVars == <<google_forms, credentials_path, forms_mapper, cache, form_cache, now>>

buildVars == <<buildArgs, buildOut>>

redirVars == <<short_urls, visits, request, response>>

mapperVars == <<mapperOut>>

sumVars == <<db_sum, sumArgs, sumOut>>

entryVars == <<form_entries, reconcileOut>>

authVars == <<now_ts, issued, revoked_tokens, logged_out, authOut>>

concVars == <<racers, readers>>

serviceVars == <<mapperVars, sumVars, entryVars, authVars, concVars>>

vars == <<abVars, selVars, formVars, buildVars, redirVars, serviceVars>>

\* ----------------------------------------------------------------------
\* ABTestService
\* ----------------------------------------------------------------------

ABTestRow == [short_url_id : ShortUrlIds, target_url : Urls,
              probability : Weights, is_active : BOOLEAN]

\* f with the entries of g laid over it
Overlay(f, g) ==
    [i \in (DOMAIN f) \cup (DOMAIN g) |-> IF i \in DOMAIN g THEN g[i] ELSE f[i]]

Without(f, i) == [j \in (DOMAIN f) \ {i} |-> f[j]]

Empty == [i \in {} |-> 0]

\* what db.get(ABTest, id) returns through this session: the object in the
\* identity map (with its pending attribute changes) or else the stored row
ViewOf(t, s) == Overlay(t, s)

View == ViewOf(tests, session)

\* rows a SELECT of this session reads: the committed rows, plus the
\* session's own pending changes when the query autoflushes them first
QueryRows(t, s) == IF autoflush THEN Overlay(t, s) ELSE t

RECURSIVE SumSeq(_)
SumSeq(q) == IF q = <<>> THEN 0 ELSE Head(q) + SumSeq(Tail(q))

RECURSIVE SumProb(_, _)
SumProb(rows, ids) ==
    IF ids = {} THEN 0
    ELSE LET i == CHOOSE j \in ids : TRUE
         IN rows[i].probability + SumProb(rows, ids \ {i})

\* the rows the query of calculate_total_probability sums.
\* exclude_test_id = 0 stands for None (the code tests `if exclude_test_id`)
summed_ids(rows, short_url_id, exclude_test_id) ==
    {i \in DOMAIN rows :
       /\ rows[i].short_url_id = short_url_id
       /\ rows[i].is_active
       /\ (exclude_test_id # 0 => i # exclude_test_id)}

\* the total in tenths, as the sum of the decimal probabilities
calculate_total_probability(rows, short_url_id, exclude_test_id) ==
    SumProb(rows, summed_ids(rows, short_url_id, exclude_test_id))

\* the probabilities of the rows in the order of their ids
RECURSIVE ProbsInOrder(_, _)
ProbsInOrder(rows, ids) ==
    IF ids = {} THEN <<>>
    ELSE LET i == CHOOSE j \in ids : \A k \in ids : j <= k
         IN <<rows[i].probability>> \o ProbsInOrder(rows, ids \ {i})

\* probability is a Float column and new_probability a float.  Of the
\* sequences of up to five tenths from 0.1 to 0.4 and 0.7 that add up to
\* 1.0, these are the ones whose doubles, added from left to right, give
\* 1.0000000000000002; no sequence adding up to less gives more than 1.0
\* and none adding up to more gives 1.0 or less.
RoundsAboveOne ==
    {<<2, 4, 3, 1>>, <<4, 2, 3, 1>>, <<1, 1, 4, 3, 1>>, <<1, 2, 3, 3, 1>>,
     <<1, 2, 4, 2, 1>>, <<1, 3, 2, 3, 1>>, <<2, 1, 3, 3, 1>>, <<2, 1, 4, 2, 1>>,
     <<2, 2, 2, 3, 1>>, <<2, 4, 1, 2, 1>>, <<3, 1, 2, 3, 1>>, <<4, 2, 1, 2, 1>>}

\* new_total > 1.0 in doubles, for a SUM that adds the rows in id order
\* ("naive") or returns the correctly rounded total ("exact")
float_gt_one(probabilities, new_probability) ==
    \/ SumSeq(probabilities) + new_probability > Den
    \/ /\ SumSeq(probabilities) + new_probability = Den
       /\ db_sum = "naive"
       /\ Append(probabilities, new_probability) \in RoundsAboveOne

\* mutant: the new probability alone is compared with 1.0
validate_probability_sum_alone(rows, short_url_id, new_probability, exclude_test_id) ==
    ~ (new_probability > Den)

\* TRUE when validate_probability_sum returns, FALSE when it raises
validate_probability_sum(rows, short_url_id, new_probability, exclude_test_id) ==
    ~ float_gt_one(ProbsInOrder(rows, summed_ids(rows, short_url_id,
                                                  exclude_test_id)),
                   new_probability)

Op(op, result, reason) ==
    [op |-> op, result |-> result, reason |-> reason]

\* a create_test or update_test call: its arguments and its outcome
Call(op, result, reason, id, test_data) ==
    [op |-> op, result |-> result, reason |-> reason, id |-> id,
     test_data |-> test_data]

\* mutant: the IntegrityError of the commit leaves the call as it is
on_integrity_error_raw(pending) ==
    [result |-> "error", reason |-> "integrity", session |-> pending]

\* except IntegrityError: rollback() discards every pending change of the
\* session and ABTestValidationError is raised in its place
on_integrity_error(pending) ==
    [result |-> "rejected", reason |-> "integrity", session |-> Empty]

\* create_test: the outcome as [result, reason, tests, session, nextId]
create_test(short_url_id, test_data, commitFails) ==
    IF short_url_id \notin ShortUrlIds
    THEN [result |-> "rejected", reason |-> "not_found",
          tests |-> tests, session |-> session, nextId |-> nextId]
    ELSE IF test_data.is_active
            /\ ~ validate_probability_sum(QueryRows(tests, session), short_url_id,
                                          test_data.probability, 0)
    THEN [result |-> "rejected", reason |-> "probability",
          tests |-> tests, session |-> session, nextId |-> nextId]
    ELSE IF commitFails
    THEN LET e == on_integrity_error(session)
         IN [result |-> e.result, reason |-> e.reason, tests |-> tests,
             session |-> e.session, nextId |-> nextId]
    ELSE LET ab_test == [short_url_id |-> short_url_id,
                         target_url |-> test_data.target_url,
                         probability |-> test_data.probability,
                         is_active |-> test_data.is_active]
         IN [result |-> "ok", reason |-> "none",
             tests |-> Overlay(Overlay(tests, session), nextId :> ab_test),
             session |-> Empty, nextId |-> nextId + 1]

\* update_test: the outcome as [result, reason, tests, session]
update_test(test_id, test_data, commitFails) ==
    IF test_id \notin DOMAIN View
    THEN [result |-> "rejected", reason |-> "not_found",
          tests |-> tests, session |-> session]
    ELSE
    LET ab_test == View[test_id]
        will_be_active == IF test_data.is_active # NoFlag
                          THEN test_data.is_active = "true"
                          ELSE ab_test.is_active
        first_ok == \/ test_data.probability = NoProb
                    \/ ~ will_be_active
                    \/ validate_probability_sum(QueryRows(tests, session),
                                                ab_test.short_url_id,
                                                test_data.probability, test_id)
        \* the object after the target_url and probability assignments
        ab1 == [ab_test EXCEPT
                  !.target_url = IF test_data.target_url # NoUrl
                                 THEN test_data.target_url ELSE @,
                  !.probability = IF test_data.probability # NoProb
                                  THEN test_data.probability ELSE @]
        session1 == IF ab1 = ab_test THEN session
                    ELSE Overlay(session, test_id :> ab1)
        activating == test_data.is_active = "true" /\ ~ ab_test.is_active
        second_ok == \/ ~ activating
                     \/ validate_probability_sum(QueryRows(tests, session1),
                                                 ab1.short_url_id,
                                                 ab1.probability, test_id)
        ab2 == [ab1 EXCEPT !.is_active = IF test_data.is_active # NoFlag
                                         THEN test_data.is_active = "true" ELSE @]
    IN IF ~ first_ok
       THEN [result |-> "rejected", reason |-> "probability",
             tests |-> tests, session |-> session]
       ELSE IF ~ second_ok
       THEN \* raised after the assignments: the object stays modified
            [result |-> "rejected", reason |-> "probability",
             tests |-> tests, session |-> session1]
       ELSE IF commitFails
       THEN LET e == on_integrity_error(session1)
            IN [result |-> e.result, reason |-> e.reason, tests |-> tests,
                session |-> e.session]
       ELSE [result |-> "ok", reason |-> "none",
             tests |-> Overlay(Overlay(tests, session), test_id :> ab2),
             session |-> Empty]

\* mutant: True is returned without db.delete
delete_test_kept(test_id) ==
    IF test_id \notin DOMAIN View
    THEN [result |-> "false", tests |-> tests, session |-> session]
    ELSE [result |-> "true",
          tests |-> Overlay(tests, session),
          session |-> Empty]

\* delete_test: the outcome as [result, tests, session]
delete_test(test_id) ==
    IF test_id \notin DOMAIN View
    THEN [result |-> "false", tests |-> tests, session |-> session]
    ELSE [result |-> "true",
          tests |-> Without(Overlay(tests, session), test_id),
          session |-> Empty]

ABTestCreate == [target_url : Urls, probability : Weights, is_active : BOOLEAN]

ABTestUpdate == [target_url : Urls \cup {NoUrl},
                 probability : Weights \cup {NoProb},
                 is_active : {"true", "false", NoFlag}]

CreateTest ==
    \E sid \in ShortUrlIds \cup {MissingShortUrlId}, d \in ABTestCreate,
       commitFails \in BOOLEAN :
        /\ nextId <= MaxTests
        /\ LET r == create_test(sid, d, commitFails)
           IN /\ tests' = r.tests
              /\ session' = r.session
              /\ nextId' = r.nextId
              /\ lastOp' = Op("create", r.result, r.reason)
        /\ UNCHANGED <<autoflush, selVars, formVars, buildVars, redirVars, serviceVars>>

UpdateTest ==
    \E id \in 1..MaxTests, d \in ABTestUpdate, commitFails \in BOOLEAN :
        /\ LET r == update_test(id, d, commitFails)
           IN /\ tests' = r.tests
              /\ session' = r.session
              /\ lastOp' = Op("update", r.result, r.reason)
        /\ UNCHANGED <<nextId, autoflush, selVars, formVars, buildVars, redirVars, serviceVars>>

DeleteTest ==
    \E id \in 1..MaxTests :
        /\ LET r == delete_test(id)
           IN /\ tests' = r.tests
              /\ session' = r.session
              /\ lastOp' = [op |-> "delete", result |-> r.result,
                             reason |-> "none", test_id |-> id]
        /\ UNCHANGED <<nextId, autoflush, selVars, formVars, buildVars, redirVars, serviceVars>>

\* the first call of a session on a table of variants, kept with its
\* arguments
FirstCreate ==
    \E sid \in ShortUrlIds \cup {MissingShortUrlId}, d \in ABTestCreate,
       commitFails \in BOOLEAN :
        /\ lastOp.op = "init"
        /\ LET r == create_test(sid, d, commitFails)
           IN /\ tests' = r.tests
              /\ session' = r.session
              /\ nextId' = r.nextId
              /\ lastOp' = Call("create", r.result, r.reason, sid, d)
        /\ UNCHANGED <<autoflush, selVars, formVars, buildVars, redirVars, serviceVars>>

FirstUpdate ==
    \E id \in 1..MaxTests, d \in ABTestUpdate, commitFails \in BOOLEAN :
        /\ lastOp.op = "init"
        /\ LET r == update_test(id, d, commitFails)
           IN /\ tests' = r.tests
              /\ session' = r.session
              /\ lastOp' = Call("update", r.result, r.reason, id, d)
        /\ UNCHANGED <<nextId, autoflush, selVars, formVars, buildVars, redirVars, serviceVars>>

\* the variants of one short URL created before the session: at most
\* MaxLedger rows, no active total above 1.0
MaxLedger == 4

LedgerWeights == {1, 2, 3, 4}

LedgerTables ==
    {t \in UNION {[1..n -> [short_url_id : {1}, target_url : {"u1"},
                            probability : LedgerWeights, is_active : BOOLEAN]] :
                  n \in 0..MaxLedger} :
       calculate_total_probability(t, 1, 0) <= Den}

\* ----------------------------------------------------------------------
\* RedirectService.select_ab_variant
\* ----------------------------------------------------------------------

\* ab_test_id of a selection of the primary URL (None)
NoId == 0

Selection(target_url, ab_test_id) ==
    [target_url |-> target_url, ab_test_id |-> ab_test_id]

NoSelection == Selection("none", NoId)

\* int(md5(primary_url + ip_address).hexdigest()[:8], 16) / 16**8, as the
\* number of whole tenths below it: floor(hash_float * Den).  The values are
\* those of the MD5 digests of the listed strings.  For a cumulative
\* probability c that is a whole number of tenths, hash_float < c / Den
\* exactly when floor(hash_float * Den) < c.
Md5Tenths ==
    [p \in PrimaryUrls |->
       IF p = "https://example.com/original"
       THEN [ip \in IpAddresses |->
               CASE ip = "192.168.1.7" -> 2
                 [] ip = "192.168.1.8" -> 3
                 [] ip = "192.168.1.2" -> 4
                 [] ip = "192.168.1.5" -> 5
                 [] ip = "192.168.1.3" -> 6
                 [] ip = "192.168.1.10" -> 7
                 [] ip = "192.168.1.1" -> 9]
       ELSE IF p = "https://example.com/landing"
       THEN [ip \in IpAddresses |->
               CASE ip = "192.168.1.7" -> 3
                 [] ip = "192.168.1.8" -> 3
                 [] ip = "192.168.1.2" -> 9
                 [] ip = "192.168.1.5" -> 1
                 [] ip = "192.168.1.3" -> 4
                 [] ip = "192.168.1.10" -> 4
                 [] ip = "192.168.1.1" -> 9]
       ELSE IF p = "https://docs.google.com/forms/d/e/RESP1/viewform"
       THEN [ip \in IpAddresses |->
               CASE ip = "192.168.1.7" -> 0
                 [] ip = "192.168.1.8" -> 8
                 [] ip = "192.168.1.2" -> 8
                 [] ip = "192.168.1.5" -> 2
                 [] ip = "192.168.1.3" -> 0
                 [] ip = "192.168.1.10" -> 5
                 [] ip = "192.168.1.1" -> 2]
       ELSE [ip \in IpAddresses |->
               CASE ip = "192.168.1.7" -> 9
                 [] ip = "192.168.1.8" -> 8
                 [] ip = "192.168.1.2" -> 0
                 [] ip = "192.168.1.5" -> 4
                 [] ip = "192.168.1.3" -> 3
                 [] ip = "192.168.1.10" -> 6
                 [] ip = "192.168.1.1" -> 9]]

\* mutant: a per-request value instead of the digest of the visitor key
hash_float_per_request(primary_url, ip_address) == requests % Den

hash_float(primary_url, ip_address) == Md5Tenths[primary_url][ip_address]

\* mutant: the loop selects on hash_float <= cumulative_prob
RECURSIVE walk_variants_le(_, _, _, _, _)
walk_variants_le(hash, ab_tests, i, cumulative_prob, primary_url) ==
    IF i > Len(ab_tests) THEN Selection(primary_url, NoId)
    ELSE LET cumulative == cumulative_prob + ab_tests[i].probability
         IN IF hash <= cumulative
            THEN Selection(ab_tests[i].target_url, ab_tests[i].id)
            ELSE walk_variants_le(hash, ab_tests, i + 1, cumulative, primary_url)

\* the loop over ab_tests from position i with the running cumulative_prob
RECURSIVE walk_variants(_, _, _, _, _)
walk_variants(hash, ab_tests, i, cumulative_prob, primary_url) ==
    IF i > Len(ab_tests) THEN Selection(primary_url, NoId)
    ELSE LET cumulative == cumulative_prob + ab_tests[i].probability
         IN IF hash < cumulative
            THEN Selection(ab_tests[i].target_url, ab_tests[i].id)
            ELSE walk_variants(hash, ab_tests, i + 1, cumulative, primary_url)

select_ab_variant(ip_address, ab_tests, primary_url) ==
    IF ab_tests = <<>> THEN Selection(primary_url, NoId)
    ELSE walk_variants(hash_float(primary_url, ip_address), ab_tests, 1, 0,
                       primary_url)

\* the variants handed to select_ab_variant: id, target_url, probability
Variant == [id : 1..MaxSel, target_url : Urls, probability : SelWeights]

\* lists of at most MaxSel variants with distinct ids, in any order
VariantLists ==
    UNION {{l \in [1..n -> Variant] :
              \A i, j \in 1..n : i # j => l[i].id # l[j].id} : n \in 0..MaxSel}

\* one call of select_ab_variant on the arguments under test
SelectCall ==
    /\ LET r == select_ab_variant(selArgs.ip_address, selArgs.ab_tests,
                                  selArgs.primary_url)
       IN /\ selOut' = r
          /\ selFirst' = IF selCalls = 0 THEN r ELSE selFirst
    /\ selCalls' = IF selCalls < 2 THEN selCalls + 1 ELSE selCalls
    /\ UNCHANGED <<selArgs, requests, abVars, formVars, buildVars, redirVars, serviceVars>>

\* the process serves another request
OtherRequest ==
    /\ requests < MaxRequests
    /\ requests' = requests + 1
    /\ UNCHANGED <<selArgs, selOut, selFirst, selCalls, abVars, formVars, buildVars, redirVars, serviceVars>>

\* ----------------------------------------------------------------------
\* Python dict (unique keys, insertion order) as a sequence of <<key, value>>
\* ----------------------------------------------------------------------

DictKeys(d) == {d[i][1] : i \in 1..Len(d)}

DictGet(d, k) == d[CHOOSE i \in 1..Len(d) : d[i][1] = k][2]

\* d[k] = v
DictSet(d, k, v) ==
    IF k \in DictKeys(d)
    THEN [i \in 1..Len(d) |-> IF d[i][1] = k THEN <<k, v>> ELSE d[i]]
    ELSE Append(d, <<k, v>>)

RECURSIVE DictUpdateFrom(_, _, _)
DictUpdateFrom(d, e, i) ==
    IF i > Len(e) THEN d
    ELSE DictUpdateFrom(DictSet(d, e[i][1], e[i][2]), e, i + 1)

\* d.update(e)
DictUpdate(d, e) == DictUpdateFrom(d, e, 1)

\* del d[k]
DictDel(d, k) == SelectSeq(d, LAMBDA p : p[1] # k)

\* The element of a one-element set.  Only({e(x) : x \in {v}}) is e(x) for
\* the local variable x = v, with v computed once.
Only(S) == CHOOSE x \in S : TRUE

\* ----------------------------------------------------------------------
\* GoogleFormsFieldMapper
\* ----------------------------------------------------------------------

\* timedelta(minutes=15), timedelta(minutes=2)
CacheTtl == 15
FormCacheTtl == 2

\* None for an entry id, a questionId, a form id
NoEntry == ""
NoQid == ""
NoFormId == ""

\* what forms().get(formId).execute() can hand back, and None.  An item
\* lists the field names its title or description contain.
NoForm == [shape |-> "none", items |-> <<>>]
EmptyForm == [shape |-> "empty", items |-> <<>>]
MalformedForm == [shape |-> "malformed", items |-> <<>>]
GoodForm ==
    [shape |-> "form",
     items |-> << [fields |-> {"utm_source"}, questionId |-> NoQid],
                  [fields |-> {"utm_source"}, questionId |-> "11"],
                  [fields |-> {"click_id"}, questionId |-> "12"] >>]

\* bool(form_data): a non-empty dict
Truthy(form) == form.shape \in {"form", "malformed"}

\* outcomes of one call of the external service: a body, or an exception
FetchOutcomes ==
    {[ok |-> TRUE, data |-> GoodForm], [ok |-> TRUE, data |-> EmptyForm],
     [ok |-> TRUE, data |-> MalformedForm], [ok |-> FALSE, data |-> NoForm]}

Mapper(c, fc) == [cache |-> c, form_cache |-> fc]

\* mutant: a failed call of the service is cached as well
get_form_negative(m, form_id, fetch) ==
    LET cached == form_id \in DOMAIN m.form_cache
        hit == cached /\ now - m.form_cache[form_id].timestamp <= FormCacheTtl
        path == IF hit THEN "hit" ELSE IF cached THEN "expired" ELSE "miss"
    IN IF hit
       THEN [m |-> m, form |-> m.form_cache[form_id].data, fetched |-> FALSE,
             path |-> path]
       ELSE [m |-> [m EXCEPT !.form_cache =
                      Overlay(@, form_id :> [data |-> fetch.data, timestamp |-> now])],
             form |-> fetch.data, fetched |-> TRUE, path |-> path]

\* _get_form: [m, form, fetched, path]: fetched when the service was
\* called; path is the debug line logged, "hit" or "expired", or "miss"
get_form(m, form_id, fetch) ==
    LET cached == form_id \in DOMAIN m.form_cache
        hit == cached /\ now - m.form_cache[form_id].timestamp <= FormCacheTtl
        evicted == [m EXCEPT !.form_cache = Without(@, form_id)]
        path == IF hit THEN "hit" ELSE IF cached THEN "expired" ELSE "miss"
    IN IF hit
       THEN [m |-> m, form |-> m.form_cache[form_id].data, fetched |-> FALSE,
             path |-> path]
       ELSE IF fetch.ok
       THEN [m |-> [evicted EXCEPT !.form_cache =
                      Overlay(@, form_id :> [data |-> fetch.data, timestamp |-> now])],
             form |-> fetch.data, fetched |-> TRUE, path |-> path]
       ELSE [m |-> evicted, form |-> NoForm, fetched |-> TRUE, path |-> path]

\* the loop of _fetch_field_entry_id over form["items"]
RECURSIVE find_entry_id(_, _, _)
find_entry_id(items, field_name, i) ==
    IF i > Len(items) THEN NoEntry
    ELSE IF field_name \in items[i].fields /\ items[i].questionId # NoQid
    THEN "entry." \o items[i].questionId
    ELSE find_entry_id(items, field_name, i + 1)

\* _fetch_field_entry_id: [m, entry_id, raised, fetched]
fetch_field_entry_id(m, form_id, field_name, fetch) ==
    Only({IF ~ Truthy(g.form)
          THEN [m |-> g.m, entry_id |-> NoEntry, raised |-> FALSE,
                fetched |-> g.fetched]
          ELSE IF g.form.shape = "malformed"
          THEN [m |-> g.m, entry_id |-> NoEntry, raised |-> TRUE,
                fetched |-> g.fetched]
          ELSE [m |-> g.m, entry_id |-> find_entry_id(g.form.items, field_name, 1),
                raised |-> FALSE, fetched |-> g.fetched] :
          g \in {get_form(m, form_id, fetch)}})

\* mutant: a cached entry is served whatever its age
get_field_entry_id_ageless(m, form_id, field_name, fetch) ==
    IF <<form_id, field_name>> \in DOMAIN m.cache
    THEN [m |-> m, entry_id |-> m.cache[<<form_id, field_name>>].entry_id,
          raised |-> FALSE, fetched |-> FALSE, path |-> "hit"]
    ELSE Only({[m |-> IF ~ f.raised /\ f.entry_id # NoEntry
                      THEN [f.m EXCEPT !.cache =
                              Overlay(@, <<form_id, field_name>> :>
                                           [entry_id |-> f.entry_id,
                                            timestamp |-> now])]
                      ELSE f.m,
                entry_id |-> f.entry_id, raised |-> f.raised,
                fetched |-> f.fetched, path |-> "miss"] :
               f \in {fetch_field_entry_id(m, form_id, field_name, fetch)}})

\* get_field_entry_id: [m, entry_id, raised, fetched, path]; path is the
\* debug line logged, "hit" or "expired", or "miss"
get_field_entry_id(m, form_id, field_name, fetch) ==
    LET cache_key == <<form_id, field_name>>
        cached == cache_key \in DOMAIN m.cache
        fresh == cached /\ now - m.cache[cache_key].timestamp <= CacheTtl
        m1 == IF cached /\ ~ fresh
              THEN [m EXCEPT !.cache = Without(@, cache_key)] ELSE m
    IN IF fresh
       THEN [m |-> m, entry_id |-> m.cache[cache_key].entry_id, raised |-> FALSE,
             fetched |-> FALSE, path |-> "hit"]
       ELSE Only({[m |-> IF ~ f.raised /\ f.entry_id # NoEntry
                         THEN [f.m EXCEPT !.cache =
                                 Overlay(@, cache_key :> [entry_id |-> f.entry_id,
                                                          timestamp |-> now])]
                         ELSE f.m,
                   entry_id |-> f.entry_id, raised |-> f.raised,
                   fetched |-> f.fetched,
                   path |-> IF cached THEN "expired" ELSE "miss"] :
                  f \in {fetch_field_entry_id(m1, form_id, field_name, fetch)}})

\* ----------------------------------------------------------------------
\* UrlBuilder
\* ----------------------------------------------------------------------

\* settings.click_id_max_age_seconds (60 s), in minutes
ClickIdMaxAge == 1

\* a URL: everything but the query string, and the query string as the
\* sequence of its key=value pairs
Url(base, query) == [base |-> base, query |-> query]

PlainBase == "https://example.com/original"
FormBase == "https://docs.google.com/forms/d/e/RESP1/viewform"
EditBase == "https://docs.google.com/forms/d/EDIT1/edit"
FormsHomeBase == "https://docs.google.com/forms/about"

\* "docs.google.com/forms" in target_url
is_google_forms_url(target_url) ==
    target_url.base \in {FormBase, EditBase, FormsHomeBase}

\* extract_form_id: r"/d/e/([a-zA-Z0-9_-]+)", then r"/d/([a-zA-Z0-9_-]+)"
extract_form_id(url) ==
    CASE url.base = FormBase -> "RESP1"
      [] url.base = EditBase -> "EDIT1"
      [] OTHER -> NoFormId

\* A datetime is the reading of a wall clock, in minutes, and its tzinfo:
\* none (naive), or a fixed offset from UTC.
NoTz == "none"

UtcOffset(tzinfo) ==
    CASE tzinfo = "+00:00" -> 0
      [] tzinfo = "+00:02" -> 2
      [] tzinfo = "-00:01" -> -1

\* the instant, in minutes of UTC, that an aware datetime denotes
Instant(date, tzinfo) == date - UtcOffset(tzinfo)

\* str(datetime)
StrDate(date, tzinfo) == ToString(date) \o (IF tzinfo = NoTz THEN "" ELSE tzinfo)

\* no last visit (None)
NoVisit == [id |-> 0, date |-> 0, tzinfo |-> NoTz]

\* mutant: the window is open at its far end (time_diff < max_age)
should_include_click_id_open(last_visit) ==
    LET last_visit_tz == IF last_visit.tzinfo = NoTz THEN "+00:00"
                         ELSE last_visit.tzinfo
    IN now - Instant(last_visit.date, last_visit_tz) < ClickIdMaxAge

\* should_include_click_id: a naive date is taken as UTC
should_include_click_id(last_visit) ==
    LET last_visit_tz == IF last_visit.tzinfo = NoTz THEN "+00:00"
                         ELSE last_visit.tzinfo
        time_diff == now - Instant(last_visit.date, last_visit_tz)
    IN time_diff <= ClickIdMaxAge

\* {k: v[0] for k, v in parse_qs(parsed.query).items()}: parse_qs skips the
\* pairs with a blank value and collects the values of a key in order
RECURSIVE first_values(_, _, _)
first_values(query, i, acc) ==
    IF i > Len(query) THEN acc
    ELSE LET k == query[i][1]
             v == query[i][2]
         IN first_values(query, i + 1,
                         IF v = "" \/ k \in DictKeys(acc) THEN acc
                         ELSE Append(acc, <<k, v>>))

existing_params(query) == first_values(query, 1, <<>>)

\* mutant: the destination's own parameters win over the forwarded ones
forwarded_params_under(final_params, forward_query, query_params) ==
    IF forward_query /\ query_params # <<>>
    THEN DictUpdate(query_params, final_params)
    ELSE final_params

\* if forward_query and query_params: final_params.update(query_params)
forwarded_params(final_params, forward_query, query_params) ==
    IF forward_query /\ query_params # <<>>
    THEN DictUpdate(final_params, query_params)
    ELSE final_params

\* a line of the "Mapped ... to ..." log of _add_google_forms_params, also
\* kept for a field that was looked up and not found
Mapped(name, entry_id, key, value) ==
    [name |-> name, entry_id |-> entry_id, key |-> key, value |-> value]

\* the key of a prefill parameter: f"entry.{entry_id}"
entry_key(entry_id) == "entry." \o entry_id

\* del query_params[name]
consume(st, name) == [st EXCEPT !.query_params = DictDel(@, name)]

\* one "Map utm_... if present" block on the running state
\* st = [params, query_params, m, log, raised]
map_named(st, form_id, name, fetch) ==
    IF st.raised \/ name \notin DictKeys(st.query_params) THEN st
    ELSE Only({IF r.raised THEN [st EXCEPT !.m = r.m, !.raised = TRUE]
               ELSE IF r.entry_id # NoEntry
               THEN consume([st EXCEPT
                               !.m = r.m,
                               !.params = DictSet(@, entry_key(r.entry_id), value),
                               !.log = Append(@, Mapped(name, r.entry_id,
                                                        entry_key(r.entry_id), value))],
                            name)
               ELSE consume([st EXCEPT
                               !.m = r.m,
                               !.log = Append(@, Mapped(name, NoEntry, "", value))],
                            name) :
               r \in {get_field_entry_id(st.m, form_id, name, fetch)},
               value \in {DictGet(st.query_params, name)}})

\* a click_id / click_timestamp lookup with the value to prefill
map_visit(st, form_id, name, value, fetch) ==
    IF st.raised THEN st
    ELSE Only({IF r.raised THEN [st EXCEPT !.m = r.m, !.raised = TRUE]
               ELSE IF r.entry_id # NoEntry
               THEN [st EXCEPT
                       !.m = r.m,
                       !.params = DictSet(@, entry_key(r.entry_id), value),
                       !.log = Append(@, Mapped(name, r.entry_id,
                                                entry_key(r.entry_id), value))]
               ELSE [st EXCEPT !.m = r.m,
                               !.log = Append(@, Mapped(name, NoEntry, "", value))] :
               r \in {get_field_entry_id(st.m, form_id, name, fetch)}})

\* the "Map click_id if appropriate" block
map_click(st, form_id, last_visit, fetch) ==
    IF last_visit = NoVisit \/ ~ should_include_click_id(last_visit) THEN st
    ELSE Only({map_visit(st1, form_id, "click_timestamp",
                         StrDate(last_visit.date, last_visit.tzinfo), fetch) :
               st1 \in {map_visit(st, form_id, "click_id",
                                   ToString(last_visit.id), fetch)}})

FormsResult(params, query_params, m, mapper, branch, log) ==
    [params |-> params, query_params |-> query_params, m |-> m,
     forms_mapper |-> mapper, branch |-> branch, log |-> log]

\* mutant: the body of _add_google_forms_params runs outside try/except
forms_error_escapes_uncaught(raised) == raised

\* except Exception as e: ... return params.  Whether an exception raised in
\* the body leaves _add_google_forms_params.
forms_error_escapes(raised) == FALSE

\* _add_google_forms_params.  Every exception is caught and params, as far
\* as it was filled, is returned.  get_forms_mapper builds the singleton
\* from settings.google_credentials_path, a field that Settings in config.py
\* does not declare: without it the call raises.
add_google_forms_params(target_url, params, query_params, last_visit, fetch) ==
    LET m0 == Mapper(cache, form_cache)
        responder_form_id == extract_form_id(target_url)
    IN IF responder_form_id = NoFormId
       THEN FormsResult(params, query_params, m0, forms_mapper, "no_form_id", <<>>)
       ELSE IF responder_form_id \notin DOMAIN google_forms
       THEN FormsResult(params, query_params, m0, forms_mapper, "not_connected", <<>>)
       ELSE IF forms_mapper = "none" /\ ~ credentials_path
       THEN FormsResult(params, query_params, m0, forms_mapper, "no_mapper", <<>>)
       ELSE
       Only({IF ~ Truthy(accessible.form)
             THEN FormsResult(params, query_params, accessible.m, "installed",
                              "not_accessible", <<>>)
             ELSE Only({FormsResult(st4.params, st4.query_params, st4.m, "installed",
                                    IF st4.raised THEN "raised" ELSE "mapped",
                                    st4.log) :
                        st4 \in {map_click(st3, form_id, last_visit, fetch) :
                        st3 \in {map_named(st2, form_id, "utm_campaign", fetch) :
                        st2 \in {map_named(st1, form_id, "utm_medium", fetch) :
                        st1 \in {map_named(st0, form_id, "utm_source", fetch) :
                        st0 \in {[params |-> params, query_params |-> query_params,
                                  m |-> accessible.m, log |-> <<>>,
                                  raised |-> FALSE]}}}}}}) :
             form_id \in {google_forms[responder_form_id]},
             accessible \in {get_form(m0, google_forms[responder_form_id], fetch)}})

\* build_url: the URL, the mapper afterwards, and the forms branch taken
build_url(target_url, forward_query, query_params, last_visit, include_form_params, db, fetch) ==
    Only({IF include_form_params /\ is_google_forms_url(target_url) /\ db
          THEN Only({[url |-> Url(target_url.base, g.params), m |-> g.m,
                      forms_mapper |-> g.forms_mapper, branch |-> g.branch,
                      log |-> g.log,
                      error |-> forms_error_escapes(g.branch \in {"no_mapper", "raised"})] :
                     g \in {add_google_forms_params(target_url, final_params,
                                                    query_params, last_visit, fetch)}})
          ELSE [url |-> Url(target_url.base, final_params),
                m |-> Mapper(cache, form_cache), forms_mapper |-> forms_mapper,
                branch |-> "skipped", log |-> <<>>, error |-> FALSE] :
          final_params \in {forwarded_params(existing_params(target_url.query),
                                             forward_query, query_params)}})

\* query strings of destinations: at most MaxQuery pairs
DestPairs == {<<"x", "1">>, <<"x", "">>, <<"utm_source", "1">>}

MaxQuery == 2

DestQueries == UNION {[1..n -> DestPairs] : n \in 0..MaxQuery}

\* request parameters: any of these, in this order
RequestItems == << <<"utm_source", "s">>, <<"utm_medium", "m">>,
                   <<"entry.entry.11", "e">> >>

RECURSIVE SubDicts(_)
SubDicts(d) ==
    IF d = <<>> THEN {<<>>}
    ELSE LET rest == SubDicts(Tail(d))
         IN rest \cup {<<Head(d)>> \o r : r \in rest}

RequestDicts == SubDicts(RequestItems)

\* the last visit of the short URL: none, or visit 77 made at time 0, its
\* date naive or carrying a time zone
LastVisits ==
    {NoVisit, [id |-> 77, date |-> 0, tzinfo |-> NoTz],
     [id |-> 77, date |-> 2, tzinfo |-> "+00:02"],
     [id |-> 77, date |-> 0, tzinfo |-> "-00:01"]}

NoBuildArgs ==
    [target_url |-> Url(PlainBase, <<>>), forward_query |-> FALSE,
     query_params |-> <<>>, last_visit |-> NoVisit,
     include_form_params |-> FALSE, db |-> FALSE]

NoBuildOut == [url |-> Url("", <<>>), branch |-> "none", log |-> <<>>]

\* whether a build_url call on these arguments reaches the mapper
ReachesMapper(a) ==
    /\ a.include_form_params /\ is_google_forms_url(a.target_url) /\ a.db
    /\ extract_form_id(a.target_url) \in DOMAIN google_forms
    /\ (forms_mapper = "installed" \/ credentials_path)

\* the argument tuples under test.  An argument the call cannot read is
\* held at one value.
BuildArgsSet ==
    {a \in [target_url : {Url(b, q) : b \in {PlainBase, FormBase, EditBase, FormsHomeBase},
                                      q \in DestQueries},
            forward_query : BOOLEAN, query_params : RequestDicts,
            last_visit : LastVisits, include_form_params : BOOLEAN,
            db : BOOLEAN] :
       /\ (~ is_google_forms_url(a.target_url) => a.db)
       /\ (~ (a.include_form_params /\ is_google_forms_url(a.target_url) /\ a.db)
             => a.last_visit = NoVisit)}

\* one call of build_url on the arguments under test
BuildCall ==
    \E fetch \in FetchOutcomes :
        /\ (~ ReachesMapper(buildArgs) => fetch.data = GoodForm)
        /\ \E r \in {build_url(buildArgs.target_url, buildArgs.forward_query,
                                buildArgs.query_params, buildArgs.last_visit,
                                buildArgs.include_form_params, buildArgs.db, fetch)} :
              /\ buildOut' = [url |-> r.url, branch |-> r.branch, log |-> r.log]
              /\ cache' = r.m.cache
              /\ form_cache' = r.m.form_cache
              /\ forms_mapper' = r.forms_mapper
        /\ UNCHANGED <<buildArgs, google_forms, credentials_path, now, abVars, selVars,
                     redirVars, serviceVars>>

\* a minute passes
MaxNow == 3

Tick ==
    /\ now < MaxNow
    /\ now' = now + 1
    /\ UNCHANGED <<google_forms, credentials_path, forms_mapper, cache,
                   form_cache, buildVars, abVars, selVars, redirVars, serviceVars>>

\* ----------------------------------------------------------------------
\* The redirect endpoint: GET /?url=...
\* ----------------------------------------------------------------------

\* Text columns and the url argument are sequences of pieces of text;
\* a piece is never split by a comparison.

\* str(settings.app_url).rstrip("/")
AppUrl == <<"https://", "app.example">>

\* domain_id IS NULL / domain_id: Optional[int] = None
NoDomain == 0

ShortUrlRow(original_url, domain_id, forward_query) ==
    [original_url |-> original_url, domain_id |-> domain_id,
     forward_query |-> forward_query]

\* the short_urls table Shlink keeps.  Row 5 belongs to another
\* application, row 6 to a domain; row 4 embeds no url parameter; the
\* destination of row 8 has a parameter of its own, with a blank value.
ShortUrlTable ==
    (1 :> ShortUrlRow(<<"https://", "app.example", "/", "?url=",
                        "https://", "example.com", "/original">>, NoDomain, TRUE))
    @@ (3 :> ShortUrlRow(<<"https://", "app.example", "/", "?url=",
                           "https://", "docs.google.com",
                           "/forms/d/e/RESP1/viewform">>, NoDomain, TRUE))
    @@ (4 :> ShortUrlRow(<<"https://", "app.example", "/about">>, NoDomain, TRUE))
    @@ (5 :> ShortUrlRow(<<"https://", "other.example", "/", "?url=",
                           "https://", "example.com", "/original">>, NoDomain, TRUE))
    @@ (6 :> ShortUrlRow(<<"https://", "app.example", "/", "?url=",
                           "https://", "example.com", "/landing">>, 1, TRUE))
    @@ (7 :> ShortUrlRow(<<"https://", "app.example", "/", "?url=",
                           "https://", "docs.google.com", "/forms/about">>,
                         NoDomain, FALSE))
    @@ (8 :> ShortUrlRow(<<"https://", "app.example", "/", "?url=",
                           "https://", "example.com", "/landing", "?x=">>,
                         NoDomain, TRUE))

\* the pieces of a text joined into one string
RECURSIVE Concat(_)
Concat(text) == IF text = <<>> THEN "" ELSE Head(text) \o Concat(Tail(text))

\* lower(): the one piece below that is not lower case already
Lower(piece) == IF piece = "EXAMPLE.COM" THEN "example.com" ELSE piece

LowerAll(text) == [i \in 1..Len(text) |-> Lower(text[i])]

\* ShortUrl.original_url.startswith(app_url)
startswith(text, prefix) ==
    Len(text) >= Len(prefix) /\ SubSeq(text, 1, Len(prefix)) = prefix

contains(text, part) ==
    \E i \in 0..(Len(text) - Len(part)) : SubSeq(text, i + 1, i + Len(part)) = part

\* text LIKE pattern, the piece "%" of a pattern standing for any run of
\* pieces
RECURSIVE Like(_, _)
Like(text, pattern) ==
    IF pattern = <<>> THEN text = <<>>
    ELSE IF Head(pattern) = "%"
    THEN \E k \in 0..Len(text) : Like(SubSeq(text, k + 1, Len(text)), Tail(pattern))
    ELSE text # <<>> /\ Head(text) = Head(pattern) /\ Like(Tail(text), Tail(pattern))

\* ShortUrl.original_url.icontains(url): lower(original_url) LIKE
\* '%' || lower(url) || '%', the value not escaped
icontains(text, part) ==
    \E t \in {LowerAll(text)}, p \in {LowerAll(part)} :
        Like(t, <<"%">> \o p \o <<"%">>)

\* mutant: the first matching row is taken, as first() would
resolve_url_first(url, domain_id) ==
    Only({IF matching = {} THEN [raised |-> FALSE, id |-> 0]
          ELSE [raised |-> FALSE, id |-> CHOOSE id \in matching :
                                            \A other \in matching : id <= other] :
          matching \in {{id \in DOMAIN short_urls :
                           /\ startswith(short_urls[id].original_url, AppUrl)
                           /\ icontains(short_urls[id].original_url, url)
                           /\ short_urls[id].domain_id = domain_id}}})

\* resolve_url: [raised, id].  scalar_one_or_none raises when more than one
\* row matches.
resolve_url(url, domain_id) ==
    Only({IF Cardinality(matching) > 1 THEN [raised |-> TRUE, id |-> 0]
          ELSE IF matching = {} THEN [raised |-> FALSE, id |-> 0]
          ELSE [raised |-> FALSE, id |-> CHOOSE id \in matching : TRUE] :
          matching \in {{id \in DOMAIN short_urls :
                           /\ startswith(short_urls[id].original_url, AppUrl)
                           /\ icontains(short_urls[id].original_url, url)
                           /\ short_urls[id].domain_id = domain_id}}})

\* urlencode(final_params)
RECURSIVE urlencode(_)
urlencode(query) ==
    IF query = <<>> THEN ""
    ELSE IF Len(query) = 1 THEN query[1][1] \o "=" \o query[1][2]
    ELSE query[1][1] \o "=" \o query[1][2] \o "&" \o urlencode(Tail(query))

\* urlunparse((scheme, netloc, path, params, new_query, fragment))
urlunparse(url) ==
    IF url.query = <<>> THEN url.base ELSE url.base \o "?" \o urlencode(url.query)

\* the URLs of the model, parsed
ParsedUrls ==
    {Url(b, q) : b \in {PlainBase, "https://example.com/landing", FormBase,
                        EditBase, FormsHomeBase},
                 q \in DestQueries}

\* what urlparse makes of the text of each of them
UrlOfText ==
    [text \in {urlunparse(url) : url \in ParsedUrls} |->
       CHOOSE url \in ParsedUrls : urlunparse(url) = text]

\* urlparse(target_url) with its query as parse_qsl would list it
urlparse(text) == UrlOfText[text]

\* get_redirect_url returned None
NoRedirectUrl == ""

\* the position of the url parameter in the template, 0 without one
url_param_at(original_url) ==
    IF \E i \in 1..Len(original_url) : original_url[i] = "?url="
    THEN CHOOSE i \in 1..Len(original_url) : original_url[i] = "?url="
    ELSE 0

\* mutant: a template without url parameter sends to the landing page
get_redirect_url_default(original_url, fetch) ==
    LET i == url_param_at(original_url)
        redirect_url == Concat(SubSeq(original_url, i + 1, Len(original_url)))
    IN IF i = 0 THEN "https://example.com/landing"
       ELSE urlunparse(build_url(urlparse(redirect_url), TRUE, <<>>, NoVisit,
                                 FALSE, FALSE, fetch).url)

\* get_redirect_url.  The templates of ShortUrlTable carry no parameter
\* besides url, so string_params is empty.
get_redirect_url(original_url, fetch) ==
    LET i == url_param_at(original_url)
        redirect_url == Concat(SubSeq(original_url, i + 1, Len(original_url)))
    IN IF i = 0 THEN NoRedirectUrl
       ELSE urlunparse(build_url(urlparse(redirect_url), TRUE, <<>>, NoVisit,
                                 FALSE, FALSE, fetch).url)

\* get_last_visit: order_by(desc(Visit.date)).limit(1)
get_last_visit(short_url_id) ==
    LET mine == {v \in visits : v.short_url_id = short_url_id}
    IN IF mine = {} THEN NoVisit
       ELSE LET last == CHOOSE v \in mine : \A w \in mine : w.date <= v.date
            IN [id |-> last.id, date |-> last.date, tzinfo |-> NoTz]

\* rows of the given ids in ascending id order
RECURSIVE OrderById(_, _)
OrderById(rows, ids) ==
    IF ids = {} THEN <<>>
    ELSE LET first == CHOOSE i \in ids : \A j \in ids : i <= j
         IN <<[id |-> first, target_url |-> rows[first].target_url,
               probability |-> rows[first].probability]>>
            \o OrderById(rows, ids \ {first})

\* mutant: the is_active filter is missing
get_active_ab_tests_any(short_url_id) ==
    OrderById(tests, {i \in DOMAIN tests : tests[i].short_url_id = short_url_id})

\* get_active_ab_tests: is_active rows of the short URL, order_by(ABTest.id)
get_active_ab_tests(short_url_id) ==
    OrderById(tests, {i \in DOMAIN tests :
                        /\ tests[i].short_url_id = short_url_id
                        /\ tests[i].is_active})

\* request.client.host, X-Forwarded-For (its first address), X-Real-IP
client_ip_of(req) ==
    IF req.forwarded_for # <<>> THEN Head(req.forwarded_for)
    ELSE IF req.real_ip # "" THEN req.real_ip
    ELSE req.client_host

\* request.query_params: url and the other parameters
request_query_params(req) == << <<"url", Concat(req.url)>> >> \o req.other_params

Response(status, detail, short_url_id, redirect_url, ab_tests, sel, b) ==
    [status |-> status, detail |-> detail, short_url_id |-> short_url_id,
     redirect_url |-> redirect_url, ab_tests |-> ab_tests,
     target_url |-> sel.target_url, ab_test_id |-> sel.ab_test_id,
     location |-> b.url, branch |-> b.branch, log |-> b.log]

NoResponse ==
    Response(0, "", 0, NoRedirectUrl, <<>>, NoSelection, NoBuildOut)

\* mutant: the handler passes the flag of the resolved record
forward_query_passed_record(short_url) == short_url.forward_query

\* the forward_query argument of the handler's build_url call: the literal
\* True, whatever the resolved record says
forward_query_passed(short_url) == TRUE

\* redirect_short_url: the response, and the mapper afterwards.  An
\* exception that leaves the handler is answered with status 500.
\* steps 2 to 8 of redirect_short_url, for the resolved short URL and its
\* redirect_url
serve_redirect(req, short_url_id, redirect_url, fetch) ==
    Only({Only({Only({IF b.error
                      THEN [response |->
                              Response(500, "Internal Server Error", short_url_id,
                                       redirect_url, ab_tests, sel, NoBuildOut),
                            m |-> b.m, forms_mapper |-> b.forms_mapper]
                      ELSE [response |->
                              Response(307, "", short_url_id, redirect_url,
                                       ab_tests, sel, b),
                            m |-> b.m, forms_mapper |-> b.forms_mapper] :
                      b \in {build_url(urlparse(sel.target_url),
                                       forward_query_passed(short_urls[short_url_id]),
                                       query_params, last_visit, TRUE, TRUE,
                                       fetch)}}) :
                sel \in {select_ab_variant(client_ip, ab_tests, redirect_url)}}) :
          client_ip \in {client_ip_of(req)},
          last_visit \in {get_last_visit(short_url_id)},
          ab_tests \in {get_active_ab_tests(short_url_id)},
          query_params \in {DictDel(request_query_params(req), "url")}})

redirect_short_url(req, fetch) ==
    LET same == [m |-> Mapper(cache, form_cache), forms_mapper |-> forms_mapper]
    IN Only({IF short_url.raised
             THEN [response |-> [NoResponse EXCEPT !.status = 500,
                                                   !.detail = "Internal Server Error"]]
                  @@ same
             ELSE IF short_url.id = 0
             THEN [response |-> [NoResponse EXCEPT !.status = 404,
                                                   !.detail = "URL not found"]]
                  @@ same
             ELSE Only({IF redirect_url = NoRedirectUrl
                        THEN [response |->
                                [NoResponse EXCEPT !.status = 404,
                                                   !.detail = "Redirect URL not found",
                                                   !.short_url_id = short_url.id]]
                             @@ same
                        ELSE serve_redirect(req, short_url.id, redirect_url, fetch) :
                        redirect_url \in
                          {get_redirect_url(short_urls[short_url.id].original_url,
                                            fetch)}}) :
             short_url \in {resolve_url(req.url, NoDomain)}})

\* the variants of the redirect scenarios: ids, rows and tables that
\* validate_probability_sum admits
VariantIds == {1, 2}

RedirectRow ==
    [short_url_id : {1, 3},
     target_url : {"https://example.com/landing", FormBase},
     probability : Weights, is_active : BOOLEAN]

RedirectTables ==
    {t \in UNION {[ids -> RedirectRow] : ids \in SUBSET VariantIds} :
       \A sid \in {1, 3} : calculate_total_probability(t, sid, 0) <= Den}

\* values of the url parameter
UrlValues ==
    {<<"https://", "example.com", "/original">>,
     <<"EXAMPLE.COM", "/original">>,
     <<"docs.google.com", "/forms/d/e/RESP1/viewform">>,
     <<"docs.google.com", "/forms/about">>,
     <<"/about">>,
     <<"example.com", "/landing">>,
     <<"https://", "nonexistent.com">>,
     <<"app.example", "%", "/original">>,
     <<"https://">>}

\* the other parameters of the request
OtherParams ==
    {<<>>, << <<"utm_source", "s">> >>,
     << <<"utm_source", "s">>, <<"utm_medium", "m">> >>}

\* direct, behind a proxy chain, behind a proxy that sets X-Real-IP
Peers ==
    {[client_host |-> "192.168.1.1", forwarded_for |-> <<>>, real_ip |-> ""],
     [client_host |-> "192.168.1.1",
      forwarded_for |-> <<"192.168.1.7", "192.168.1.2">>, real_ip |-> "192.168.1.5"],
     [client_host |-> "192.168.1.1", forwarded_for |-> <<>>,
      real_ip |-> "192.168.1.5"]}

Request(url, other_params, peer) ==
    [url |-> url, other_params |-> other_params,
     client_host |-> peer.client_host, forwarded_for |-> peer.forwarded_for,
     real_ip |-> peer.real_ip]

NoRequest ==
    Request(<<"https://", "nonexistent.com">>, <<>>,
            [client_host |-> "192.168.1.1", forwarded_for |-> <<>>, real_ip |-> ""])

Requests == {Request(u, o, p) : u \in UrlValues, o \in OtherParams, p \in Peers}

\* visits tables: none, two recent visits of each record, one old visit
VisitTables ==
    {{},
     {[id |-> 76, short_url_id |-> 3, date |-> -1],
      [id |-> 77, short_url_id |-> 3, date |-> 0],
      [id |-> 78, short_url_id |-> 1, date |-> 0]},
     {[id |-> 75, short_url_id |-> 3, date |-> -5],
      [id |-> 74, short_url_id |-> 1, date |-> -5]}}

\* mutant: the handler records the visit it has answered with a redirect
db_after_request_tracked(resp) ==
    [short_urls |-> short_urls, tests |-> tests, google_forms |-> google_forms,
     visits |-> IF resp.status = 307
                THEN visits \cup {[id |-> 99, short_url_id |-> resp.short_url_id,
                                    date |-> now]}
                ELSE visits]

\* the tables when the request has been answered.  Every statement the
\* handler and its services execute is a select, and nothing is added to
\* the session, deleted from it or committed.
db_after_request(resp) ==
    [short_urls |-> short_urls, tests |-> tests, google_forms |-> google_forms,
     visits |-> visits]

\* GET /?url=... on the request under test
Redirect ==
    \E fetch \in FetchOutcomes :
        /\ \E r \in {redirect_short_url(request, fetch)} :
              /\ (r.response.branch \in {"none", "skipped", "no_form_id",
                                         "not_connected", "no_mapper"}
                    => fetch.data = GoodForm)
              /\ response' = r.response
              /\ cache' = r.m.cache
              /\ form_cache' = r.m.form_cache
              /\ forms_mapper' = r.forms_mapper
              /\ \E db \in {db_after_request(r.response)} :
                    /\ short_urls' = db.short_urls
                    /\ tests' = db.tests
                    /\ visits' = db.visits
                    /\ google_forms' = db.google_forms
        /\ UNCHANGED <<request, credentials_path, now, session, nextId, autoflush,
                       lastOp, selVars, buildVars, serviceVars>>

\* ----------------------------------------------------------------------
\* The mapper called directly, as the days pass
\* ----------------------------------------------------------------------

\* the form after its owner has replaced the utm_source question
ChangedForm ==
    [shape |-> "form",
     items |-> << [fields |-> {"utm_source"}, questionId |-> "21"] >>]

\* outcomes of a call of the service over the life of the mapper
LaterFetchOutcomes == FetchOutcomes \cup {[ok |-> TRUE, data |-> ChangedForm]}

\* the form and the field names asked for
MapperFormId == "EDIT1"
FieldNames == {"utm_source", "utm_medium"}

MapperOut(op, field_name, entry_id, form, raised, fetched, path) ==
    [op |-> op, field_name |-> field_name, entry_id |-> entry_id, form |-> form,
     raised |-> raised, fetched |-> fetched, path |-> path]

NoMapperOut == MapperOut("none", "", NoEntry, NoForm, FALSE, FALSE, "none")

\* mapper.get_field_entry_id(form_id, field_name)
GetFieldEntryId ==
    \E field_name \in FieldNames, fetch \in LaterFetchOutcomes :
        /\ \E r \in {get_field_entry_id(Mapper(cache, form_cache), MapperFormId,
                                         field_name, fetch)} :
              /\ (~ r.fetched => fetch.data = GoodForm)
              /\ cache' = r.m.cache
              /\ form_cache' = r.m.form_cache
              /\ mapperOut' = MapperOut("get_field_entry_id", field_name, r.entry_id,
                                        NoForm, r.raised, r.fetched, r.path)
        /\ UNCHANGED <<google_forms, credentials_path, forms_mapper, now, abVars,
                       selVars, buildVars, redirVars, sumVars, entryVars, authVars,
                       concVars>>

\* mapper.is_form_accessible(form_id): bool(self._get_form(form_id))
IsFormAccessible ==
    \E fetch \in LaterFetchOutcomes :
        /\ \E r \in {get_form(Mapper(cache, form_cache), MapperFormId, fetch)} :
              /\ (~ r.fetched => fetch.data = GoodForm)
              /\ cache' = r.m.cache
              /\ form_cache' = r.m.form_cache
              /\ mapperOut' = MapperOut("is_form_accessible", "", NoEntry, r.form,
                                        FALSE, r.fetched, r.path)
        /\ UNCHANGED <<google_forms, credentials_path, forms_mapper, now, abVars,
                       selVars, buildVars, redirVars, sumVars, entryVars, authVars,
                       concVars>>

\* clear_expired_cache: both dicts rebuilt from their entries within ttl
clear_expired_cache(m) ==
    Mapper([k \in {j \in DOMAIN m.cache : now - m.cache[j].timestamp <= CacheTtl}
              |-> m.cache[k]],
           [k \in {j \in DOMAIN m.form_cache :
                     now - m.form_cache[j].timestamp <= FormCacheTtl}
              |-> m.form_cache[k]])

\* mapper.clear_expired_cache()
ClearExpiredCache ==
    /\ \E m \in {clear_expired_cache(Mapper(cache, form_cache))} :
          /\ cache' = m.cache
          /\ form_cache' = m.form_cache
    /\ mapperOut' = MapperOut("clear_expired_cache", "", NoEntry, NoForm, FALSE,
                              FALSE, "none")
    /\ UNCHANGED <<google_forms, credentials_path, forms_mapper, now, abVars,
                   selVars, buildVars, redirVars, sumVars, entryVars, authVars,
                   concVars>>

\* the clock runs to MaxClock minutes
MaxClock == 18

\* a minute, the life of a cached form or the life of a cached entry passes
Elapse ==
    \E d \in {1, FormCacheTtl, CacheTtl} :
        /\ now + d <= MaxClock
        /\ now' = now + d
        /\ UNCHANGED <<google_forms, credentials_path, forms_mapper, cache,
                       form_cache, buildVars, abVars, selVars, redirVars, serviceVars>>

\* ----------------------------------------------------------------------
\* validate_probability_sum called on a table of variants
\* ----------------------------------------------------------------------

\* at most MaxRows variants, of records 1 and 2
MaxRows == 3

SumWeights == {2, 3, 4}

SumRow == [short_url_id : {1, 2}, target_url : {"https://example.com/landing"},
           probability : SumWeights, is_active : BOOLEAN]

\* the tables in which no record's active total exceeds 1.0
SumTables ==
    {t \in UNION {[1..n -> SumRow] : n \in 0..MaxRows} :
       \A sid \in {1, 2} : calculate_total_probability(t, sid, 0) <= Den}

SumArgs == [short_url_id : {1}, new_probability : {1, 7}, exclude_test_id : {0, 3}]

NoSumArgs == [short_url_id |-> 1, new_probability |-> 1, exclude_test_id |-> 0]

\* one call of validate_probability_sum on the arguments under test
ValidateCall ==
    /\ sumOut' = IF validate_probability_sum(QueryRows(tests, session),
                                             sumArgs.short_url_id,
                                             sumArgs.new_probability,
                                             sumArgs.exclude_test_id)
                 THEN "returned" ELSE "raised"
    /\ UNCHANGED <<db_sum, sumArgs, mapperVars, entryVars, authVars, abVars,
                   selVars, formVars, buildVars, redirVars,
                   concVars>>

\* ----------------------------------------------------------------------
\* FormEntry rows and their reconciliation with a fetched field list
\* ----------------------------------------------------------------------

GoogleFormIds == {1, 2}
Titles == {"utm_source", "click_id"}
EntryIds == {11, 12}

\* a form_entries row (the autoincrement id and created_at are left out)
FormEntry(google_form_id, entry_id, title, updated_at) ==
    [google_form_id |-> google_form_id, entry_id |-> entry_id, title |-> title,
     updated_at |-> updated_at]

\* UniqueConstraint("google_form_id", "entry_id")
uq_form_entry_per_form(rows) ==
    \A r1, r2 \in rows :
        (r1.google_form_id = r2.google_form_id /\ r1.entry_id = r2.entry_id)
          => r1 = r2

\* mutant: updated_at has no onupdate
updated_row_unstamped(row, entry_id) == [row EXCEPT !.entry_id = entry_id]

\* a row whose entry_id is assigned: onupdate=datetime.now stamps updated_at
updated_row(row, entry_id) ==
    [row EXCEPT !.entry_id = entry_id, !.updated_at = now]

\* a row added: default=datetime.now stamps updated_at
inserted_row(google_form_id, entry_id, title) ==
    FormEntry(google_form_id, entry_id, title, now)

\* a fetched field list: the entry id of each title it holds
FieldLists ==
    UNION {{f \in [ts -> EntryIds] : \A t1, t2 \in ts : f[t1] = f[t2] => t1 = t2} :
           ts \in SUBSET Titles}

\* The reconciliation of one form with a fetched field list: the rows of
\* the form are compared by title; a row whose entry id differs is updated,
\* a title without a row gets one, a row whose title is not in the list is
\* deleted.  [rows, raised]: the commit raises IntegrityError, and the
\* transaction is rolled back, when the rows would break the unique
\* constraint.
reconcile(rows, google_form_id, fetched) ==
    LET mine == {r \in rows : r.google_form_id = google_form_id}
        kept == {IF r.entry_id = fetched[r.title] THEN r
                 ELSE updated_row(r, fetched[r.title]) :
                 r \in {x \in mine : x.title \in DOMAIN fetched}}
        added == {inserted_row(google_form_id, fetched[t], t) :
                  t \in {x \in DOMAIN fetched : \A r \in mine : r.title # x}}
        result == (rows \ mine) \cup kept \cup added
    IN IF uq_form_entry_per_form(result)
       THEN [rows |-> result, raised |-> FALSE]
       ELSE [rows |-> rows, raised |-> TRUE]

NoReconcileOut == [google_form_id |-> 0, fetched |-> Empty, raised |-> FALSE]

\* one reconciliation of a form with the field list just fetched
Reconcile ==
    \E google_form_id \in GoogleFormIds, fetched \in FieldLists :
        /\ \E r \in {reconcile(form_entries, google_form_id, fetched)} :
              /\ form_entries' = r.rows
              /\ reconcileOut' = [google_form_id |-> google_form_id,
                                  fetched |-> fetched, raised |-> r.raised]
        /\ UNCHANGED <<mapperVars, sumVars, authVars, abVars, selVars, formVars,
                       buildVars, redirVars,
                       concVars>>

\* ----------------------------------------------------------------------
\* AuthService and the admin routes that depend on a session
\* ----------------------------------------------------------------------

\* settings.session_max_age (86400 s), in half lives of a session
SessionMaxAge == 2

\* secrets.token_urlsafe(16)
Jtis == {"j1", "j2"}

\* a JWT: its claims, and whether its signature is that of settings.jwt_secret
Token(jti, iat, exp, signed) == [jti |-> jti, iat |-> iat, exp |-> exp, signed |-> signed]

\* no cookie (None), and a token signed with another secret
NoToken == Token("", 0, 0, FALSE)
ForgedToken == Token("j1", 0, SessionMaxAge, FALSE)

\* jwt.decode: TRUE when it returns the payload, FALSE when it raises
\* InvalidTokenError (ExpiredSignatureError when exp <= now)
jwt_decode(token, t, verify_exp) ==
    token.signed /\ (verify_exp => ~ (token.exp <= t))

\* _is_revoked at time t: [revoked, tokens]; an entry past its expiry is
\* removed and the jti treated as not revoked
is_revoked(tokens, jti, t) ==
    IF jti \notin DOMAIN tokens THEN [revoked |-> FALSE, tokens |-> tokens]
    ELSE IF t < tokens[jti] THEN [revoked |-> TRUE, tokens |-> tokens]
    ELSE [revoked |-> FALSE, tokens |-> Without(tokens, jti)]

\* decode_session: [valid, tokens].  jwt.decode reads the clock at t1 and
\* _is_revoked reads it again at t2 >= t1.
decode_session(token, t1, t2) ==
    IF ~ jwt_decode(token, t1, TRUE)
    THEN [valid |-> FALSE, tokens |-> revoked_tokens]
    ELSE Only({[valid |-> ~ r.revoked, tokens |-> r.tokens] :
               r \in {is_revoked(revoked_tokens, token.jti, t2)}})

\* verify_session: [valid, tokens]
verify_session(session_token, t1, t2) ==
    IF session_token = NoToken
    THEN [valid |-> FALSE, tokens |-> revoked_tokens]
    ELSE decode_session(session_token, t1, t2)

\* invalidate_session on the blacklist given: the blacklist afterwards
invalidate_session(tokens, session_token) ==
    IF ~ jwt_decode(session_token, 0, FALSE) THEN tokens
    ELSE Overlay(tokens, session_token.jti :> session_token.exp)

\* cleanup_revoked_tokens: [removed, tokens]
cleanup_revoked_tokens(t) ==
    LET to_remove == {jti \in DOMAIN revoked_tokens : revoked_tokens[jti] <= t}
    IN [removed |-> Cardinality(to_remove),
        tokens |-> [jti \in DOMAIN revoked_tokens \ to_remove |-> revoked_tokens[jti]]]

\* the clock runs to MaxTs
MaxTs == 4

\* what a client can send as its session cookie
Cookies == issued \cup {NoToken, ForgedToken}

AuthOut(op, jti, valid, status, location) ==
    [op |-> op, jti |-> jti, valid |-> valid, status |-> status, location |-> location]

NoAuthOut == AuthOut("none", "", FALSE, 0, "")

\* POST /admin/login with the admin token: create_session and the cookie
Login ==
    \E jti \in Jtis \ {t.jti : t \in issued} :
        /\ issued' = issued \cup {Token(jti, now_ts, now_ts + SessionMaxAge, TRUE)}
        /\ authOut' = AuthOut("login", jti, TRUE, 303, "/admin/dashboard")
        /\ UNCHANGED <<now_ts, revoked_tokens, logged_out, mapperVars, sumVars, entryVars,
                       abVars, selVars, formVars, buildVars, redirVars,
                       concVars>>

\* AuthService.verify_session(token); the clock may move between its two
\* readings
VerifySession ==
    \E token \in Cookies, d \in {0, 1} :
        /\ now_ts + d <= MaxTs
        /\ \E r \in {verify_session(token, now_ts, now_ts + d)} :
              /\ revoked_tokens' = r.tokens
              /\ authOut' = AuthOut("verify_session", token.jti, r.valid, 0, "")
        /\ now_ts' = now_ts + d
        /\ UNCHANGED <<issued, logged_out, mapperVars, sumVars, entryVars,
                       abVars, selVars, formVars, buildVars, redirVars,
                       concVars>>

\* GET /admin/dashboard: verify_admin_session raises HTTPException(401)
\* unless the cookie verifies; no exception handler is installed
Dashboard ==
    \E token \in Cookies, d \in {0, 1} :
        /\ now_ts + d <= MaxTs
        /\ \E r \in {verify_session(token, now_ts, now_ts + d)} :
              /\ revoked_tokens' = r.tokens
              /\ authOut' = IF r.valid
                            THEN AuthOut("dashboard", token.jti, TRUE, 200, "")
                            ELSE AuthOut("dashboard", token.jti, FALSE, 401, "")
        /\ now_ts' = now_ts + d
        /\ UNCHANGED <<issued, logged_out, mapperVars, sumVars, entryVars,
                       abVars, selVars, formVars, buildVars, redirVars,
                       concVars>>

\* POST /admin/logout: verify_admin_session, then invalidate_session
Logout ==
    \E token \in Cookies, d \in {0, 1} :
        /\ now_ts + d <= MaxTs
        /\ \E r \in {verify_session(token, now_ts, now_ts + d)} :
              IF r.valid
              THEN /\ revoked_tokens' = invalidate_session(r.tokens, token)
                   /\ logged_out' = logged_out \cup {token.jti}
                   /\ authOut' = AuthOut("logout", token.jti, TRUE, 303, "/admin/login")
              ELSE /\ revoked_tokens' = r.tokens
                   /\ logged_out' = logged_out
                   /\ authOut' = AuthOut("logout", token.jti, FALSE, 401, "")
        /\ now_ts' = now_ts + d
        /\ UNCHANGED <<issued, mapperVars, sumVars, entryVars,
                       abVars, selVars, formVars, buildVars, redirVars,
                       concVars>>

\* AuthService.cleanup_revoked_tokens()
Cleanup ==
    /\ revoked_tokens' = cleanup_revoked_tokens(now_ts).tokens
    /\ authOut' = AuthOut("cleanup", "", FALSE, 0, "")
    /\ UNCHANGED <<now_ts, issued, logged_out, mapperVars, sumVars, entryVars,
                   abVars, selVars, formVars, buildVars, redirVars,
                   concVars>>

\* the clock moves on
AuthTick ==
    /\ now_ts < MaxTs
    /\ now_ts' = now_ts + 1
    /\ UNCHANGED <<issued, revoked_tokens, logged_out, authOut, mapperVars, sumVars,
                   entryVars, abVars, selVars, formVars, buildVars, redirVars,
                   concVars>>

\* ----------------------------------------------------------------------
\* Two administrative requests at once, each with a session of its own
\* ----------------------------------------------------------------------

Racers == {1, 2}

Racer(pc, op, test_id, probability) ==
    [pc |-> pc, op |-> op, test_id |-> test_id, probability |-> probability]

IdleRacer == Racer("idle", "none", 0, 0)

\* the tables the requests start from: no active total exceeds 1.0
RaceTables ==
    {t \in UNION {[1..n -> ABTestRow] : n \in 0..MaxTests} :
       \A sid \in ShortUrlIds : calculate_total_probability(t, sid, 0) <= Den}

\* create_test of an active variant up to its validation: the select of
\* validate_probability_sum reads the committed rows
race_create(short_url_id, probability) ==
    IF validate_probability_sum(tests, short_url_id, probability, 0)
    THEN Racer("validated", "create", 0, probability)
    ELSE Racer("rejected", "create", 0, probability)

\* update_test(test_id, is_active=True) of an inactive variant up to its
\* validation, with the probability of the loaded object
race_activate(test_id) ==
    IF validate_probability_sum(tests, tests[test_id].short_url_id,
                                tests[test_id].probability, test_id)
    THEN Racer("validated", "activate", test_id, tests[test_id].probability)
    ELSE Racer("rejected", "activate", test_id, tests[test_id].probability)

\* db.add(ab_test); db.commit() of create_test, and the commit of
\* update_test, which writes the attribute it has set: [tests, nextId]
race_commit(racer, short_url_id) ==
    IF racer.op = "create"
    THEN [tests |-> Overlay(tests, nextId :> [short_url_id |-> short_url_id,
                                              target_url |-> "u1",
                                              probability |-> racer.probability,
                                              is_active |-> TRUE]),
          nextId |-> nextId + 1]
    ELSE [tests |-> [tests EXCEPT ![racer.test_id].is_active = TRUE],
          nextId |-> nextId]

\* a request runs up to the end of its validation
RaceValidate(p) ==
    /\ racers[p].pc = "idle"
    /\ \/ \E probability \in Weights :
             racers' = [racers EXCEPT ![p] = race_create(1, probability)]
       \/ \E test_id \in DOMAIN tests :
             /\ ~ tests[test_id].is_active
             /\ racers' = [racers EXCEPT ![p] = race_activate(test_id)]
    /\ UNCHANGED <<abVars, selVars, formVars, buildVars, redirVars, mapperVars,
                   sumVars, entryVars, authVars, readers>>

\* a validated request commits
RaceCommit(p) ==
    /\ racers[p].pc = "validated"
    /\ \E r \in {race_commit(racers[p], 1)} :
          /\ tests' = r.tests
          /\ nextId' = r.nextId
    /\ racers' = [racers EXCEPT ![p].pc = "committed"]
    /\ UNCHANGED <<session, autoflush, lastOp, selVars, formVars, buildVars,
                   redirVars, mapperVars, sumVars, entryVars, authVars, readers>>

\* ----------------------------------------------------------------------
\* Two get_field_entry_id calls of the same key at once, statement by
\* statement, on the caches of the one mapper
\* ----------------------------------------------------------------------

Readers == {1, 2}

Reader(pc, entry_id) == [pc |-> pc, entry_id |-> entry_id]

ReaderKey == <<MapperFormId, "utm_source">>

\* the rest of the model, which the readers leave alone
ReaderFrame ==
    <<google_forms, credentials_path, forms_mapper, now, abVars, selVars, buildVars,
      redirVars, mapperVars, sumVars, entryVars, authVars, racers>>

\* if cache_key in self.cache
ReaderCheck(p) ==
    /\ readers[p].pc = "start"
    /\ readers' = [readers EXCEPT ![p].pc = IF ReaderKey \in DOMAIN cache
                                            THEN "read" ELSE "fetch"]
    /\ UNCHANGED <<cache, form_cache, ReaderFrame>>

\* entry_id, timestamp = self.cache[cache_key], a KeyError when the key has
\* gone, and the comparison of its age with cache_ttl
ReaderRead(p) ==
    /\ readers[p].pc = "read"
    /\ readers' =
         [readers EXCEPT ![p] =
            IF ReaderKey \notin DOMAIN cache THEN Reader("error", NoEntry)
            ELSE IF now - cache[ReaderKey].timestamp <= CacheTtl
            THEN Reader("done", cache[ReaderKey].entry_id)
            ELSE Reader("evict", NoEntry)]
    /\ UNCHANGED <<cache, form_cache, ReaderFrame>>

\* del self.cache[cache_key], a KeyError when the key has gone
ReaderEvict(p) ==
    /\ readers[p].pc = "evict"
    /\ IF ReaderKey \in DOMAIN cache
       THEN /\ cache' = Without(cache, ReaderKey)
            /\ readers' = [readers EXCEPT ![p].pc = "fetch"]
       ELSE /\ cache' = cache
            /\ readers' = [readers EXCEPT ![p].pc = "error"]
    /\ UNCHANGED <<form_cache, ReaderFrame>>

\* entry_id = self._fetch_field_entry_id(form_id, field_name), the service
\* answering with the form or failing
ReaderFetch(p) ==
    /\ readers[p].pc = "fetch"
    /\ \E fetch \in {[ok |-> TRUE, data |-> GoodForm], [ok |-> FALSE, data |-> NoForm]} :
         \E f \in {fetch_field_entry_id(Mapper(cache, form_cache), ReaderKey[1],
                                        ReaderKey[2], fetch)} :
            /\ (~ f.fetched => fetch.ok)
            /\ form_cache' = f.m.form_cache
            /\ readers' = [readers EXCEPT ![p] =
                             IF f.raised THEN Reader("error", NoEntry)
                             ELSE Reader("store", f.entry_id)]
    /\ UNCHANGED <<cache, ReaderFrame>>

\* if entry_id: self.cache[cache_key] = (entry_id, now); return entry_id
ReaderStore(p) ==
    /\ readers[p].pc = "store"
    /\ cache' = IF readers[p].entry_id # NoEntry
                THEN Overlay(cache, ReaderKey :> [entry_id |-> readers[p].entry_id,
                                                  timestamp |-> now])
                ELSE cache
    /\ readers' = [readers EXCEPT ![p].pc = "done"]
    /\ UNCHANGED <<form_cache, ReaderFrame>>

\* ----------------------------------------------------------------------
\* Specifications
\* ----------------------------------------------------------------------

\* an empty ab_tests table and a fresh session
ABStart ==
    /\ tests = Empty
    /\ session = Empty
    /\ nextId = 1
    /\ lastOp = Op("init", "ok", "none")

SelStart ==
    /\ selArgs = [ip_address |-> "192.168.1.1", ab_tests |-> <<>>,
                  primary_url |-> "https://example.com/original"]
    /\ selOut = NoSelection
    /\ selFirst = NoSelection
    /\ selCalls = 0
    /\ requests = 0

\* no form connected, no mapper built, the clock at 0
FormStart ==
    /\ google_forms = Empty
    /\ credentials_path = FALSE
    /\ forms_mapper = "none"
    /\ cache = Empty
    /\ form_cache = Empty
    /\ now = 0

BuildStart ==
    /\ buildArgs = NoBuildArgs
    /\ buildOut = NoBuildOut

\* the short_urls table, no visit, no request served
RedirStart ==
    /\ short_urls = ShortUrlTable
    /\ visits = {}
    /\ request = NoRequest
    /\ response = NoResponse

\* no administrative request in flight
ConcStart ==
    /\ racers = [p \in Racers |-> IdleRacer]
    /\ readers = [p \in Readers |-> Reader("start", NoEntry)]

\* no session issued, none revoked
AuthStart ==
    /\ now_ts = 0
    /\ issued = {}
    /\ revoked_tokens = Empty
    /\ logged_out = {}
    /\ authOut = NoAuthOut

\* no form entry stored, no reconciliation yet
EntryStart ==
    /\ form_entries = {}
    /\ reconcileOut = NoReconcileOut

\* no direct call of the mapper or of validate_probability_sum yet
ServiceStart ==
    /\ mapperOut = NoMapperOut
    /\ db_sum = "naive"
    /\ sumArgs = NoSumArgs
    /\ sumOut = "none"
    /\ EntryStart
    /\ AuthStart
    /\ ConcStart

\* the ledger alone: one session issuing create, update and delete calls
InitAB ==
    /\ ABStart
    /\ autoflush \in BOOLEAN
    /\ SelStart
    /\ FormStart
    /\ BuildStart
    /\ RedirStart
    /\ ServiceStart

NextAB == CreateTest \/ UpdateTest \/ DeleteTest

SpecAB == InitAB /\ [][NextAB]_vars

\* select_ab_variant on arguments drawn at the start
InitSelect ==
    /\ ABStart
    /\ autoflush = FALSE
    /\ FormStart
    /\ BuildStart
    /\ RedirStart
    /\ ServiceStart
    /\ selArgs \in [ip_address : IpAddresses, ab_tests : VariantLists,
                    primary_url : PrimaryUrls]
    /\ selOut = NoSelection
    /\ selFirst = NoSelection
    /\ selCalls = 0
    /\ requests = 0

NextSelect == SelectCall \/ OtherRequest

SpecSelect == InitSelect /\ [][NextSelect]_vars

\* build_url calls against the mapper, with the clock running
InitBuild ==
    /\ ABStart
    /\ autoflush = FALSE
    /\ SelStart
    /\ google_forms \in {Empty, "RESP1" :> "EDIT1"}
    /\ credentials_path \in BOOLEAN
    /\ forms_mapper = "none"
    /\ cache = Empty
    /\ form_cache = Empty
    /\ now = 0
    /\ buildArgs \in BuildArgsSet
    /\ (~ (buildArgs.include_form_params /\ is_google_forms_url(buildArgs.target_url)
           /\ buildArgs.db)
          => (google_forms = Empty /\ ~ credentials_path))
    /\ buildOut = NoBuildOut
    /\ RedirStart
    /\ ServiceStart

NextBuild == BuildCall \/ Tick

SpecBuild == InitBuild /\ [][NextBuild]_vars

\* the mapper alone: a built mapper with empty caches, read again and again
InitMapper ==
    /\ ABStart
    /\ autoflush = FALSE
    /\ SelStart
    /\ google_forms = "RESP1" :> "EDIT1"
    /\ credentials_path = TRUE
    /\ forms_mapper = "installed"
    /\ cache = Empty
    /\ form_cache = Empty
    /\ now = 0
    /\ BuildStart
    /\ RedirStart
    /\ ServiceStart

\* validate_probability_sum alone: a committed table, one call
InitSum ==
    /\ tests \in SumTables
    /\ session = Empty
    /\ nextId = MaxRows + 1
    /\ lastOp = Op("init", "ok", "none")
    /\ autoflush = FALSE
    /\ SelStart
    /\ FormStart
    /\ BuildStart
    /\ RedirStart
    /\ mapperOut = NoMapperOut
    /\ db_sum \in {"naive", "exact"}
    /\ sumArgs \in SumArgs
    /\ sumOut = "none"
    /\ EntryStart
    /\ AuthStart
    /\ ConcStart

NextSum == ValidateCall

SpecSum == InitSum /\ [][NextSum]_vars

\* the form entries alone: reconciliations as the minutes pass
InitEntries ==
    /\ ABStart
    /\ autoflush = FALSE
    /\ SelStart
    /\ FormStart
    /\ BuildStart
    /\ RedirStart
    /\ ServiceStart

NextEntries == Reconcile \/ Tick

SpecEntries == InitEntries /\ [][NextEntries]_vars

\* the admin surface alone: logins, requests with a cookie, logouts
InitAuth ==
    /\ ABStart
    /\ autoflush = FALSE
    /\ SelStart
    /\ FormStart
    /\ BuildStart
    /\ RedirStart
    /\ ServiceStart

NextAuth == Login \/ VerifySession \/ Dashboard \/ Logout \/ Cleanup \/ AuthTick

SpecAuth == InitAuth /\ [][NextAuth]_vars

NextMapper == GetFieldEntryId \/ IsFormAccessible \/ ClearExpiredCache \/ Elapse

SpecMapper == InitMapper /\ [][NextMapper]_vars

\* the Google Forms destinations a request for the short URL can be sent
\* to: the URL its template embeds and the targets of its active variants,
\* none of which has a query string
FormsTargets(short_url_id) ==
    LET original_url == short_urls[short_url_id].original_url
        last == original_url[Len(original_url)]
        embedded == IF last = "/forms/d/e/RESP1/viewform" THEN {FormBase}
                    ELSE IF last = "/forms/about" THEN {FormsHomeBase}
                    ELSE {}
        targets == {tests[i].target_url :
                      i \in {j \in DOMAIN tests :
                               /\ tests[j].short_url_id = short_url_id
                               /\ tests[j].is_active}}
    IN {u \in {Url(t, <<>>) : t \in embedded \cup targets} : is_google_forms_url(u)}

\* one GET / request against tables drawn at the start.  What the request
\* cannot read is held at one value: everything, unless it gets as far as
\* select_ab_variant; its peer, unless the short URL has an active variant;
\* the forms tables, unless a destination is a Google Forms URL.
InitRedirect ==
    /\ session = Empty
    /\ nextId = 1
    /\ lastOp = Op("init", "ok", "none")
    /\ autoflush = FALSE
    /\ SelStart
    /\ BuildStart
    /\ ServiceStart
    /\ short_urls = ShortUrlTable
    /\ response = NoResponse
    /\ forms_mapper = "none"
    /\ cache = Empty
    /\ form_cache = Empty
    /\ now = 0
    /\ request \in Requests
    /\ LET short_url == resolve_url(request.url, NoDomain)
           id == short_url.id
       IN IF /\ ~ short_url.raised /\ id # 0
             /\ url_param_at(short_urls[id].original_url) # 0
          THEN /\ tests \in RedirectTables
               /\ (\A i \in DOMAIN tests :
                      ~ (tests[i].short_url_id = id /\ tests[i].is_active))
                  => request.forwarded_for = <<>> /\ request.real_ip = ""
               /\ LET forms == FormsTargets(id)
                  IN IF forms # {}
                     THEN /\ google_forms \in {Empty, "RESP1" :> "EDIT1"}
                          /\ credentials_path \in BOOLEAN
                          /\ IF /\ credentials_path
                                /\ \E u \in forms :
                                      extract_form_id(u) \in DOMAIN google_forms
                             THEN visits \in VisitTables
                             ELSE visits = {}
                     ELSE /\ google_forms = Empty
                          /\ credentials_path = FALSE
                          /\ visits = {}
          ELSE /\ request.other_params = <<>>
               /\ request.forwarded_for = <<>> /\ request.real_ip = ""
               /\ tests = Empty
               /\ google_forms = Empty
               /\ credentials_path = FALSE
               /\ visits = {}

NextRedirect == Redirect

SpecRedirect == InitRedirect /\ [][NextRedirect]_vars

\* two administrative requests on the same short URL, in every order of
\* their validations and commits
InitRace ==
    /\ tests \in RaceTables
    /\ session = Empty
    /\ nextId = Cardinality(DOMAIN tests) + 1
    /\ lastOp = Op("init", "ok", "none")
    /\ autoflush = FALSE
    /\ SelStart
    /\ FormStart
    /\ BuildStart
    /\ RedirStart
    /\ ServiceStart

\* one create_test or update_test call on a table of variants
InitCall ==
    /\ tests \in LedgerTables
    /\ session = Empty
    /\ nextId = Cardinality(DOMAIN tests) + 1
    /\ lastOp = Op("init", "ok", "none")
    /\ autoflush \in BOOLEAN
    /\ SelStart
    /\ FormStart
    /\ BuildStart
    /\ RedirStart
    /\ ServiceStart

NextCall == FirstCreate \/ FirstUpdate

SpecCall == InitCall /\ [][NextCall]_vars

\* two reads of a key that is missing or expired, the cached form missing,
\* fresh or expired
InitReaders ==
    /\ ABStart
    /\ autoflush = FALSE
    /\ SelStart
    /\ google_forms = "RESP1" :> "EDIT1"
    /\ credentials_path = TRUE
    /\ forms_mapper = "installed"
    /\ now = CacheTtl + 1
    /\ cache \in {Empty, ReaderKey :> [entry_id |-> "entry.11", timestamp |-> 0]}
    /\ form_cache \in {Empty,
                       MapperFormId :> [data |-> GoodForm, timestamp |-> now],
                       MapperFormId :> [data |-> GoodForm, timestamp |-> 0]}
    /\ BuildStart
    /\ RedirStart
    /\ ServiceStart

NextReaders ==
    \E p \in Readers :
        \/ ReaderCheck(p)
        \/ ReaderRead(p)
        \/ ReaderEvict(p)
        \/ ReaderFetch(p)
        \/ ReaderStore(p)

SpecReaders == InitReaders /\ [][NextReaders]_vars

NextRace == \E p \in Racers : RaceValidate(p) \/ RaceCommit(p)

SpecRace == InitRace /\ [][NextRace]_vars

\* ----------------------------------------------------------------------
\* Claims
\* ----------------------------------------------------------------------

ActiveTotal(rows, sid) == calculate_total_probability(rows, sid, 0)

\* C1: after any sequence of create_test, update_test and delete_test calls,
\* the committed sum of the probabilities of the active variants of a short
\* URL never exceeds 1.0.
C1_ActiveSumAtMostOne ==
    \A sid \in ShortUrlIds : ActiveTotal(tests, sid) <= Den

\* an activation was rejected for probability while the committed active
\* total is exactly 1.0 over two variants
C1_Witness ==
    /\ lastOp.op = "update" /\ lastOp.result = "rejected"
    /\ lastOp.reason = "probability"
    /\ \E sid \in ShortUrlIds :
         /\ ActiveTotal(tests, sid) = Den
         /\ Cardinality({i \in DOMAIN tests : tests[i].is_active}) = 2

\* C2: a create_test or update_test call rejected with a validation error
\* keeps no partial state: every variant, as read through the same session
\* and as stored, is what it was before the call.
C2_RejectedLeavesStateUnchanged ==
    [][(lastOp'.op \in {"create", "update"} /\ lastOp'.result = "rejected"
        /\ lastOp'.reason \in {"probability", "not_found"})
       => (View' = View /\ tests' = tests)]_vars

RECURSIVE CumulativeUpTo(_, _)
CumulativeUpTo(l, k) ==
    IF k = 0 THEN 0 ELSE CumulativeUpTo(l, k - 1) + l[k].probability

\* positions whose cumulative probability is strictly above the hash value
HitPositions(h, l) == {k \in 1..Len(l) : h < CumulativeUpTo(l, k)}

\* C4: select returns the first variant in list order whose cumulative
\* probability is strictly greater than the hash value, with its id, and the
\* primary destination with no id when the list is empty or the hash value
\* is not below the total.
C4_FirstVariantAboveHash ==
    selCalls >= 1 =>
      LET h == hash_float(selArgs.primary_url, selArgs.ip_address)
          l == selArgs.ab_tests
          hits == HitPositions(h, l)
      IN IF hits = {}
         THEN selOut = Selection(selArgs.primary_url, NoId)
         ELSE LET k == CHOOSE x \in hits : \A y \in hits : x <= y
              IN selOut = Selection(l[k].target_url, l[k].id)

\* the second variant of a list is selected on a hash value equal to the
\* cumulative probability of the first
C4_Witness ==
    /\ selCalls >= 1
    /\ Len(selArgs.ab_tests) = 2
    /\ hash_float(selArgs.primary_url, selArgs.ip_address)
         = selArgs.ab_tests[1].probability
    /\ selArgs.ab_tests[1].probability > 0
    /\ selOut.ab_test_id = selArgs.ab_tests[2].id

\* the well-known parameter names of the field-mapping branch
WellKnown == {"utm_source", "utm_medium", "utm_campaign"}

\* the values a query string gives to a key
QueryValues(query, k) == {query[i][2] : i \in {j \in 1..Len(query) : query[j][1] = k}}

\* the log lines of the last call that stored a prefill parameter
MappedLines ==
    {buildOut.log[i] : i \in {j \in 1..Len(buildOut.log) :
                                buildOut.log[j].entry_id # NoEntry}}

\* C7: in the URL build_url returns, each key carries the value of the
\* highest-precedence source that defines it: a mapped field parameter, else
\* a forwarded request parameter, else the destination's own parameter;
\* forwarded parameters need forward_query, and mapped parameters need
\* include_form_params and a Google Forms destination.
C7_Precedence ==
    buildOut.branch # "none" =>
      LET a == buildArgs
          out == buildOut.url.query
          mappedKeys == {l.key : l \in MappedLines}
      IN /\ \A k \in DictKeys(out) :
              IF k \in mappedKeys
              THEN DictGet(out, k) \in {l.value : l \in {x \in MappedLines : x.key = k}}
              ELSE IF a.forward_query /\ k \in DictKeys(a.query_params)
              THEN DictGet(out, k) = DictGet(a.query_params, k)
              ELSE DictGet(out, k) \in QueryValues(a.target_url.query, k)
         /\ mappedKeys \subseteq DictKeys(out)
         /\ (a.forward_query => DictKeys(a.query_params) \subseteq DictKeys(out))
         /\ (MappedLines # {}
               => a.include_form_params /\ is_google_forms_url(a.target_url))

\* a mapped parameter has replaced a forwarded one of the same key, and a
\* forwarded parameter has replaced the destination's own
C7_Witness ==
    /\ buildOut.branch = "mapped"
    /\ buildArgs.forward_query
    /\ \E l \in MappedLines :
         /\ l.key \in DictKeys(buildArgs.query_params)
         /\ DictGet(buildArgs.query_params, l.key) # l.value
         /\ DictGet(buildOut.url.query, l.key) = l.value
    /\ \E k \in DictKeys(buildArgs.query_params) :
         /\ QueryValues(buildArgs.target_url.query, k) # {}
         /\ DictGet(buildArgs.query_params, k) \notin QueryValues(buildArgs.target_url.query, k)
         /\ DictGet(buildOut.url.query, k) = DictGet(buildArgs.query_params, k)

\* C8: build_url with forward_query false, no request parameters and
\* include_form_params false returns the destination unchanged.
C8_PassThroughIdentity ==
    (/\ buildOut.branch # "none"
     /\ ~ buildArgs.forward_query
     /\ buildArgs.query_params = <<>>
     /\ ~ buildArgs.include_form_params)
    => buildOut.url = buildArgs.target_url

\* C9: a well-known parameter whose entry id get_field_entry_id resolved is
\* in the final URL under exactly that entry id, with the request's value.
C9_KeyIsResolvedEntryId ==
    \A l \in MappedLines :
        l.name \in WellKnown
        => /\ l.entry_id \in DictKeys(buildOut.url.query)
           /\ DictGet(buildOut.url.query, l.entry_id) = l.value

\* C10: when the field-mapping branch ran on a connected, accessible form,
\* no well-known parameter of the request is in the final URL under its own
\* name.
C10_WellKnownConsumed ==
    buildOut.branch = "mapped"
    => \A name \in WellKnown \cap DictKeys(buildArgs.query_params) :
          name \notin DictKeys(buildOut.url.query)

\* what resolve_url makes of the value of the request under test
Resolved == resolve_url(request.url, NoDomain)

\* the template of the resolved record embeds a url parameter
TemplateEmbedsUrl ==
    \E i \in 1..Len(short_urls[Resolved.id].original_url) :
        short_urls[Resolved.id].original_url[i] = "?url="

\* the targets of the active variants of a short URL
ActiveTargets(short_url_id) ==
    {tests[i].target_url : i \in {j \in DOMAIN tests :
                                    /\ tests[j].short_url_id = short_url_id
                                    /\ tests[j].is_active}}

PrefillLines ==
    {response.log[i] : i \in {j \in 1..Len(response.log) :
                                response.log[j].entry_id # NoEntry}}

\* C6: a request that resolves and whose selected destination is a Google
\* Forms URL is answered 307 to that destination for every outcome of the
\* forms integration; when nothing was prefilled the Location carries the
\* destination with the request's other parameters and nothing else.
C6_FailOpen ==
    (/\ response.status # 0
     /\ response.target_url # NoSelection.target_url
     /\ is_google_forms_url(urlparse(response.target_url)))
    => /\ response.status = 307
       /\ response.location.base = urlparse(response.target_url).base
       /\ (PrefillLines = {}
             => response.location.query
                  = DictUpdate(urlparse(response.target_url).query,
                               request.other_params))

\* the external service returned a malformed body for a connected form, and
\* the request was answered 307 with its own parameters only
C6_Witness ==
    /\ response.status = 307
    /\ response.branch = "raised"
    /\ is_google_forms_url(urlparse(response.target_url))
    /\ request.other_params # <<>>
    /\ response.location.query = request.other_params

\* the names of the fields the last build_url call looked up, and the
\* values the URL it returned carries
LookedUp(out) == {out.log[i].name : i \in 1..Len(out.log)}

UrlValuesOf(out) == {out.url.query[i][2] : i \in 1..Len(out.url.query)}

\* minutes between the instant of the last visit and now
VisitAge(v) == now - (v.date - (IF v.tzinfo = NoTz THEN 0 ELSE UtcOffset(v.tzinfo)))

\* C11: a build_url call that maps the fields of a form looks up click_id
\* and click_timestamp, and puts the visit id into the URL, exactly when
\* now minus the instant of the last visit is at most the maximum age; the
\* instant of a naive date is its reading taken as UTC.  A visit exactly
\* the maximum age old is included, an older one is not.
C11_ClickIdWindow ==
    [][(now' = now /\ buildOut'.branch = "mapped" /\ buildArgs.last_visit # NoVisit)
         => LET eligible == VisitAge(buildArgs.last_visit) <= ClickIdMaxAge
            IN /\ ("click_id" \in LookedUp(buildOut')) = eligible
               /\ ("click_timestamp" \in LookedUp(buildOut')) = eligible
               /\ (ToString(buildArgs.last_visit.id) \in UrlValuesOf(buildOut'))
                    = eligible]_vars

\* a call made when the naive-dated visit was exactly the maximum age old
\* has put the visit id into the URL
C11_Witness ==
    /\ buildOut.branch = "mapped"
    /\ buildArgs.last_visit # NoVisit
    /\ buildArgs.last_visit.tzinfo = NoTz
    /\ VisitAge(buildArgs.last_visit) = ClickIdMaxAge
    /\ \E f \in DOMAIN form_cache : form_cache[f].timestamp = now
    /\ ToString(buildArgs.last_visit.id) \in UrlValuesOf(buildOut)

\* the entry cached for the field of the mapper call this step makes
StepKey == <<MapperFormId, mapperOut'.field_name>>

\* C12: a get_field_entry_id call that finds the field cached since T
\* returns the cached entry without calling the service or touching the
\* caches when it comes before T + cache_ttl; when it comes after, the old
\* entry is gone, the field is looked up again in the form, and what is
\* found is cached with the time of the call.  The same holds of _get_form
\* and the form cache with form_cache_ttl.
C12_CacheStaleness ==
    [][/\ (/\ now' = now /\ mapperOut'.op = "get_field_entry_id"
           /\ StepKey \in DOMAIN cache)
          => /\ now < cache[StepKey].timestamp + CacheTtl
                  => /\ mapperOut'.entry_id = cache[StepKey].entry_id
                     /\ ~ mapperOut'.fetched /\ ~ mapperOut'.raised
                     /\ cache' = cache /\ form_cache' = form_cache
             /\ now > cache[StepKey].timestamp + CacheTtl
                  => /\ mapperOut'.path = "expired"
                     /\ \/ mapperOut'.fetched
                        \/ /\ MapperFormId \in DOMAIN form_cache
                           /\ now <= form_cache[MapperFormId].timestamp + FormCacheTtl
                     /\ IF mapperOut'.entry_id # NoEntry /\ ~ mapperOut'.raised
                        THEN /\ StepKey \in DOMAIN cache'
                             /\ cache'[StepKey] = [entry_id |-> mapperOut'.entry_id,
                                                    timestamp |-> now]
                        ELSE StepKey \notin DOMAIN cache'
       /\ (/\ now' = now /\ mapperOut'.op = "is_form_accessible"
           /\ MapperFormId \in DOMAIN form_cache)
          => /\ now < form_cache[MapperFormId].timestamp + FormCacheTtl
                  => /\ mapperOut'.form = form_cache[MapperFormId].data
                     /\ ~ mapperOut'.fetched
                     /\ cache' = cache /\ form_cache' = form_cache
             /\ now > form_cache[MapperFormId].timestamp + FormCacheTtl
                  => /\ mapperOut'.path = "expired" /\ mapperOut'.fetched
                     /\ IF mapperOut'.form # NoForm
                        THEN /\ MapperFormId \in DOMAIN form_cache'
                             /\ form_cache'[MapperFormId] = [data |-> mapperOut'.form,
                                                             timestamp |-> now]
                        ELSE MapperFormId \notin DOMAIN form_cache']_vars

\* a read after the life of a cached entry has found it expired, fetched
\* the form again and cached the entry the changed form gives
C12_Witness ==
    /\ mapperOut.op = "get_field_entry_id"
    /\ mapperOut.path = "expired"
    /\ mapperOut.fetched
    /\ mapperOut.entry_id = "entry.21"
    /\ cache[<<MapperFormId, mapperOut.field_name>>]
         = [entry_id |-> "entry.21", timestamp |-> now]

\* C13: no call of _get_form or get_field_entry_id raises to its caller;
\* when the service fails or its answer is malformed the call returns None.
C13_NeverRaises ==
    /\ ~ mapperOut.raised
    /\ (mapperOut.op = "is_form_accessible" /\ mapperOut.fetched
           /\ MapperFormId \notin DOMAIN form_cache)
          => mapperOut.form = NoForm

\* the tenths the variants counted for the call under test add up to: the
\* active variants of the record other than the excluded one
CountedTotal ==
    SumProb(tests, {i \in DOMAIN tests :
                      /\ tests[i].short_url_id = sumArgs.short_url_id
                      /\ tests[i].is_active
                      /\ i # sumArgs.exclude_test_id})

EntriesOf(rows, google_form_id) == {r \in rows : r.google_form_id = google_form_id}

TitledIds(rows) == {<<r.title, r.entry_id>> : r \in rows}

C16_DashboardRedirects ==
    (authOut.op = "dashboard" /\ ~ authOut.valid)
      => (authOut.status = 303 /\ authOut.location # "")

\* C17: verify_session returns False for a token that invalidate_session
\* has been called on, whatever happened since.
C17_RevokedNeverVerifies ==
    (authOut.op \in {"verify_session", "dashboard"} /\ authOut.valid)
      => authOut.jti \notin logged_out

\* C18: delete_test on an existing variant returns True and removes it: the
\* lookup of its id finds nothing, no active total counts it, and no later
\* call brings the id back; delete_test on an unknown id returns False and
\* leaves every variant, stored or pending, as it was.
C18_DeleteRemoves ==
    /\ []((lastOp.op = "delete" /\ lastOp.result = "true")
           => /\ lastOp.test_id \notin DOMAIN View
              /\ lastOp.test_id \notin DOMAIN tests
              /\ \A sid \in ShortUrlIds :
                    lastOp.test_id \notin summed_ids(QueryRows(tests, session), sid, 0))
    /\ [][(lastOp'.op = "delete" /\ lastOp' # lastOp)
           => /\ lastOp'.result = "true" <=> lastOp'.test_id \in DOMAIN View
              /\ lastOp'.result = "false" => (tests' = tests /\ session' = session)
              /\ \A i \in DOMAIN View \ {lastOp'.test_id} : i \in DOMAIN View']_vars
    /\ [][\A i \in 1..MaxTests :
             (i < nextId /\ i \notin DOMAIN View) => i \notin DOMAIN View']_vars

\* an active variant was deleted while another one of its short URL stays
C18_Witness ==
    /\ lastOp.op = "delete" /\ lastOp.result = "true"
    /\ DOMAIN tests # {}
    /\ \E i \in DOMAIN tests : tests[i].is_active

\* the destination the template of a record embeds, as it is written there
EmbeddedDestination(short_url_id) ==
    LET original_url == short_urls[short_url_id].original_url
    IN Concat(SubSeq(original_url, url_param_at(original_url) + 1,
                     Len(original_url)))

\* C19: a request answered 307 for a record without active variants whose
\* destination is no Google Forms URL gets as Location the destination the
\* record embeds, as written there, with every other parameter of the
\* request and its value added; the url parameter is not among them, and
\* without other parameters the Location is the embedded destination itself.
C19_LocationIsDestination ==
    (/\ response.status = 307
     /\ response.ab_tests = <<>>
     /\ ~ is_google_forms_url(urlparse(EmbeddedDestination(response.short_url_id))))
    => /\ response.location.base
            = urlparse(EmbeddedDestination(response.short_url_id)).base
       /\ response.location.query
            = DictUpdate(urlparse(EmbeddedDestination(response.short_url_id)).query,
                         request.other_params)
       /\ "url" \notin DictKeys(response.location.query)
       /\ (request.other_params = <<>>
             => urlunparse(response.location)
                  = EmbeddedDestination(response.short_url_id))

\* C20: answering a redirect request, whatever the answer, leaves the
\* short_urls, ab_tests, visits and google_forms tables as they were: no row
\* is created, modified or deleted.  Every step of SpecRedirect is one
\* request.
C20_RedirectReadOnly ==
    [][/\ short_urls' = short_urls
       /\ tests' = tests
       /\ visits' = visits
       /\ google_forms' = google_forms]_vars

\* a request was answered with the URL of a variant, a Google Form whose
\* fields were mapped after the last visit and the form's mapping were read
C20_Witness ==
    /\ response.status = 307
    /\ response.ab_test_id # NoId
    /\ response.branch = "mapped"
    /\ visits # {} /\ google_forms # Empty /\ tests # Empty

\* C21: when two administrative requests create or activate variants of
\* the same short URL at once, each validating and then committing, the
\* committed sum of the active probabilities of the short URL stays at most
\* 1.0 in every order of their validations and commits.
C21_RaceKeepsSum ==
    \A sid \in ShortUrlIds : ActiveTotal(tests, sid) <= Den

\* the active total of the variants of the short URL other than test_id
OthersTotal(rows, short_url_id, test_id) ==
    SumProb(rows, {i \in DOMAIN rows : /\ rows[i].short_url_id = short_url_id
                                        /\ rows[i].is_active
                                        /\ i # test_id})

\* an update_test call on an existing variant was made in this step
UpdatedExisting ==
    lastOp'.op = "update" /\ lastOp'.id \in DOMAIN tests

C23_ReadersConverge ==
    /\ \A p \in Readers : readers[p].pc # "error"
    /\ ((\A p \in Readers : readers[p].pc = "done" /\ readers[p].entry_id # NoEntry)
          => /\ ReaderKey \in DOMAIN cache
             /\ now - cache[ReaderKey].timestamp <= CacheTtl)

\* the records whose template begins with the base origin, contains the
\* value as a substring and has the given scope
Satisfying(url, domain_id) ==
    {id \in DOMAIN short_urls :
       /\ startswith(short_urls[id].original_url, AppUrl)
       /\ contains(short_urls[id].original_url, url)
       /\ short_urls[id].domain_id = domain_id}

\* C24: for every scope, resolve_url on the value of the request, when it
\* returns, returns a record only if the record's template begins with the
\* base origin, contains the value as a substring and has exactly the
\* scope; it returns none exactly when no record does, and the record when
\* exactly one does.
C24_ResolveMatches ==
    \A domain_id \in {NoDomain, 1} :
       \A r \in {resolve_url(request.url, domain_id)} :
          \A matching \in {Satisfying(request.url, domain_id)} :
             (response.status # 0 /\ ~ r.raised)
             => /\ r.id # 0 => r.id \in matching
                /\ r.id = 0 <=> matching = {}
                /\ Cardinality(matching) = 1 => r.id \in matching

\* C25: the list a redirect hands to select_ab_variant holds all and only
\* the active variants of the resolved short URL, each with its target and
\* probability, in ascending order of their ids, which are given out in
\* creation order.
C25_ActiveInCreationOrder ==
    response.status = 307
    => /\ {response.ab_tests[i].id : i \in 1..Len(response.ab_tests)}
            = {i \in DOMAIN tests : /\ tests[i].short_url_id = response.short_url_id
                                     /\ tests[i].is_active}
       /\ \A i, j \in 1..Len(response.ab_tests) :
             i < j => response.ab_tests[i].id < response.ab_tests[j].id
       /\ \A i \in 1..Len(response.ab_tests) :
             /\ response.ab_tests[i].target_url
                  = tests[response.ab_tests[i].id].target_url
             /\ response.ab_tests[i].probability
                  = tests[response.ab_tests[i].id].probability

\* a redirect with two active variants of its short URL in the list, next
\* to none of another
C25_Witness ==
    /\ response.status = 307
    /\ Len(response.ab_tests) = 2
    /\ response.ab_tests[1].probability # response.ab_tests[2].probability

\* C26: a create_test or update_test call whose commit raises
\* IntegrityError ends with the validation error of the service, never
\* with the error of the database, the session rolled back and the stored
\* variants as they were before the call.
C26_IntegrityTranslated ==
    [][(lastOp'.op \in {"create", "update"} /\ lastOp'.reason = "integrity")
       => /\ lastOp'.result = "rejected"
          /\ tests' = tests
          /\ session' = Empty]_vars

\* the commit of an update failed while variants were stored
C26_Witness ==
    /\ lastOp.op = "update" /\ lastOp.reason = "integrity"
    /\ lastOp.result = "rejected"
    /\ tests # Empty /\ session = Empty

\* the cached entry of the key of this step's call is older than cache_ttl
StepKeyExpired ==
    StepKey \in DOMAIN cache /\ now - cache[StepKey].timestamp > CacheTtl

\* C27: an entry id that get_field_entry_id returns from the cache was
\* stored at most cache_ttl before the call; a call that finds the entry
\* expired never returns it unless the form still gives it, and when it
\* returns none or raises, the key is absent from the cache afterwards.
\* clear_expired_cache leaves no entry older than its ttl in either cache.
C27_NoStaleEntry ==
    [][/\ (now' = now /\ mapperOut'.op = "get_field_entry_id")
          => /\ mapperOut'.path = "hit"
                  => /\ StepKey \in DOMAIN cache
                     /\ now - cache[StepKey].timestamp <= CacheTtl
                     /\ mapperOut'.entry_id = cache[StepKey].entry_id
             /\ (~ mapperOut'.fetched /\ mapperOut'.entry_id # NoEntry
                   /\ mapperOut'.path # "hit")
                  => /\ MapperFormId \in DOMAIN form_cache
                     /\ now - form_cache[MapperFormId].timestamp <= FormCacheTtl
             /\ StepKeyExpired
                  => /\ mapperOut'.path = "expired"
                     /\ (mapperOut'.entry_id = NoEntry \/ mapperOut'.raised)
                          => StepKey \notin DOMAIN cache'
                     /\ (mapperOut'.entry_id # NoEntry /\ ~ mapperOut'.raised)
                          => cache'[StepKey].timestamp = now
       /\ (now' = now /\ mapperOut'.op = "clear_expired_cache")
          => /\ \A k \in DOMAIN cache' : now - cache'[k].timestamp <= CacheTtl
             /\ \A k \in DOMAIN form_cache' :
                   now - form_cache'[k].timestamp <= FormCacheTtl]_vars

\* a read found its entry expired, the service failed, and the read
\* returned none with the key gone from the cache
C27_Witness ==
    /\ mapperOut.op = "get_field_entry_id"
    /\ mapperOut.path = "expired"
    /\ mapperOut.fetched /\ ~ mapperOut.raised
    /\ mapperOut.entry_id = NoEntry
    /\ <<MapperFormId, mapperOut.field_name>> \notin DOMAIN cache

\* the cached form of the mapper is missing or older than form_cache_ttl
FormEntryGone ==
    \/ MapperFormId \notin DOMAIN form_cache
    \/ now - form_cache[MapperFormId].timestamp > FormCacheTtl

\* C28: the field cache never holds an empty entry id and the form cache
\* never holds the None of a failed call; after a read that returned none
\* its key is not cached, and a read of a key that is not cached, or a
\* check of the form, calls the service whenever the cached form is missing
\* or expired.
C28_NoNegativeCaching ==
    /\ [](/\ \A k \in DOMAIN cache : cache[k].entry_id # NoEntry
          /\ \A f \in DOMAIN form_cache : form_cache[f].data # NoForm
          /\ (mapperOut.op = "get_field_entry_id" /\ mapperOut.entry_id = NoEntry)
               => <<MapperFormId, mapperOut.field_name>> \notin DOMAIN cache)
    /\ [][/\ (/\ now' = now /\ mapperOut'.op = "get_field_entry_id"
               /\ StepKey \notin DOMAIN cache /\ FormEntryGone)
              => mapperOut'.fetched
          /\ (now' = now /\ mapperOut'.op = "is_form_accessible" /\ FormEntryGone)
              => mapperOut'.fetched]_vars

\* a read of a key that was not cached called the service, the call failed,
\* and neither cache holds anything of it
C28_Witness ==
    /\ mapperOut.op = "get_field_entry_id"
    /\ mapperOut.path = "miss"
    /\ mapperOut.fetched /\ ~ mapperOut.raised
    /\ mapperOut.entry_id = NoEntry
    /\ MapperFormId \notin DOMAIN form_cache
    /\ <<MapperFormId, mapperOut.field_name>> \notin DOMAIN cache

\* the records the query of resolve_url selects for the value of the request
Selected ==
    {id \in DOMAIN short_urls :
       /\ startswith(short_urls[id].original_url, AppUrl)
       /\ icontains(short_urls[id].original_url, request.url)
       /\ short_urls[id].domain_id = NoDomain}

\* C29: when the query of resolve_url selects more than one record for the
\* value of a request, resolve_url raises instead of returning one of
\* them, and the request is answered neither 307 nor 404: no record is
\* resolved and no Location is computed.
C29_AmbiguousRaises ==
    (response.status # 0 /\ Cardinality(Selected) > 1)
    => /\ Resolved.raised
       /\ response.status \notin {307, 404}
       /\ response.short_url_id = 0
       /\ response.location = NoBuildOut.url

\* a value that several templates contain was answered with an error
C29_Witness ==
    /\ response.status = 500
    /\ Cardinality(Selected) > 1
    /\ Resolved.raised

\* the Location the handler computes for the request when the resolved
\* record carries this forward_query flag and is the same otherwise
LocationWithFlag(resp, flag, fetch) ==
    build_url(urlparse(resp.target_url),
              forward_query_passed([short_urls[resp.short_url_id]
                                      EXCEPT !.forward_query = flag]),
              DictDel(request_query_params(request), "url"),
              get_last_visit(resp.short_url_id), TRUE, TRUE, fetch).url

\* C30: the Location of a request answered 307 does not depend on the
\* forward_query flag of the resolved record: the record with the flag set
\* and the record with the flag cleared, the same otherwise, give the
\* Location that was answered, and every other parameter of the request is
\* a parameter of that Location.
C30_FlagIgnored ==
    /\ [](response.status = 307
           => DictKeys(request.other_params)
                \subseteq DictKeys(response.location.query))
    /\ [][response'.status = 307
           => \E fetch \in FetchOutcomes :
                 \A flag \in BOOLEAN :
                    LocationWithFlag(response', flag, fetch) = response'.location]_vars

\* a record whose forward_query flag is cleared was resolved, and the
\* Location carries the other parameters of the request
C30_Witness ==
    /\ response.status = 307
    /\ ~ short_urls[response.short_url_id].forward_query
    /\ request.other_params # <<>>
    /\ DictKeys(request.other_params) \subseteq DictKeys(response.location.query)

====
